---- MODULE Spec2Model ----
(***************************************************************************)
(* On-screen display of the emulator front-end: the message queue          *)
(* (OSD::AddTypedMessage, AddMessage, DrawMessages, ClearMessages) and the *)
(* playback control bar (seek bar, volume bar, buttons, idle fade) of      *)
(* Source/Core/VideoCommon/OnScreenDisplay.cpp.                            *)
(***************************************************************************)
EXTENDS Integers, Sequences, FiniteSets, TLC

(***************************************************************************)
(* 32-bit unsigned values.  A u32 is kept as <<hi, lo>>, its two 16-bit    *)
(* halves, so that the arithmetic keeps the width of the C++ type.         *)
(***************************************************************************)
Half == 2 ^ 16

U32(hi, lo) == <<hi, lo>>

\* u32 + u32, wrapping at 2^32.
U32Add(a, b) ==
  LET lo == a[2] + b[2]
      hi == a[1] + b[1] + (IF lo >= Half THEN 1 ELSE 0)
  IN  <<hi % Half, lo % Half>>

\* u32 - u32, wrapping at 2^32.
U32Sub(a, b) ==
  LET lo == a[2] - b[2]
      hi == a[1] - b[1] - (IF lo < 0 THEN 1 ELSE 0)
  IN  <<hi % Half, lo % Half>>

\* a < b as unsigned values.
U32Less(a, b) == a[1] < b[1] \/ (a[1] = b[1] /\ a[2] < b[2])

\* static_cast<int>(u32): the two's complement reading of the 32 bits.
ToS32(a) ==
  IF a[1] < Half \div 2 THEN a[1] * Half + a[2]
                        ELSE (a[1] - Half) * Half + a[2]

Min(a, b) == IF a < b THEN a ELSE b
Max(a, b) == IF a > b THEN a ELSE b


(***************************************************************************)
(* Bounds of the model and the inputs it draws.                            *)
(***************************************************************************)
\* Calls of AddTypedMessage / AddMessage in one behaviour.
MaxAdds == 2
\* Advances of the millisecond clock between the queue's calls in one
\* behaviour.
MaxTicks == 1

\* enum class MessageType, in declaration order (the multimap's key order).
MessageType == {"NetPlayPing", "NetPlayBuffer", "Typeless"}
TypeOrder(type) ==
  CASE type = "NetPlayPing"   -> 0
    [] type = "NetPlayBuffer" -> 1
    [] type = "Typeless"      -> 2

\* Durations (the u32 ms argument) the callers pass.
Durations == { U32(0, 512), U32(0, 1024), U32(Half \div 2, 0) }
\* Steps of Common::Timer::GetTimeMs() between two calls.
Deltas == { U32(0, 512), U32(Half \div 2, 0) }
\* Clock reading at start-up: 512 ms before the u32 wraps, so that readings
\* on both sides of the wrap occur.
InitClocks == { U32(Half - 1, Half - 512) }
\* The rgba argument.
Colors == { U32(65535, 65280) }

VARIABLES
  s_messages,     \* std::multimap<MessageType, Message>, in iteration order
  clock,          \* what Common::Timer::GetTimeMs() returns now
  nextText,       \* texts are numbered, so each message has its own text
  ticks,          \* clock advances so far
  lastTyped,      \* type -> text of the latest AddTypedMessage(type), or 0
  call,           \* the latest completed queue call and the queue before it
  untypedRun,     \* AddMessage calls since the last other call, size before
  drawRead        \* what a DrawMessages under way read before it locks

queueVars ==
  <<s_messages, clock, nextText, ticks, lastTyped, call, untypedRun, drawRead>>

(***************************************************************************)
(* The message queue.                                                      *)
(***************************************************************************)
\* struct Message, with the key it is stored under.  t and ms are not fields
\* of the struct: they record the clock reading and the duration of the call
\* that queued the message, for the properties to speak about.
Message(type, text, timestamp, color, t, ms) ==
  [type |-> type, text |-> text, timestamp |-> timestamp, color |-> color,
   t |-> t, ms |-> ms]

\* s_messages.erase(type): every entry under the key goes.
EraseAll(q, type) == << >>
EraseNothing(q, type) == q
EraseKey(q, type) == SelectSeq(q, LAMBDA m : m.type # type)

\* s_messages.emplace(type, msg): after the last entry whose key is not
\* greater (equal keys keep their insertion order).
EmplaceReplacing(q, msg) ==
  LET r == SelectSeq(q, LAMBDA m : m.type # msg.type)
      n == Cardinality({ i \in 1 .. Len(r) :
                          TypeOrder(r[i].type) <= TypeOrder(msg.type) })
  IN  SubSeq(r, 1, n) \o <<msg>> \o SubSeq(r, n + 1, Len(r))
Emplace(q, msg) ==
  LET n == Cardinality({ i \in 1 .. Len(q) :
                          TypeOrder(q[i].type) <= TypeOrder(msg.type) })
  IN  SubSeq(q, 1, n) \o <<msg>> \o SubSeq(q, n + 1, Len(q))

\* const int time_left = static_cast<int>(msg.timestamp - now);
TimeLeftByComparison(msg, now) ==
  IF U32Less(now, msg.timestamp) THEN 1 ELSE 0
TimeLeft(msg, now) == ToS32(U32Sub(msg.timestamp, now))

\* if (time_left <= 0) erase
ExpiredStrict(time_left) == time_left < 0
Expired(time_left) == time_left <= 0

\* Fade: std::min(1.0f, std::max(0.0f, time_left / 1024.0f)), as the
\* fraction <<numerator, 1024>>.
FADE_MS == 1024
AlphaSeconds(time_left) == <<Min(1000, Max(0, time_left)), 1000>>
Alpha(time_left) == <<Min(FADE_MS, Max(0, time_left)), FADE_MS>>

\* The loop of DrawMessages: the entries it keeps.
Kept(q, now) == SelectSeq(q, LAMBDA m : ~Expired(TimeLeft(m, now)))

\* The DrawMessage calls of the loop: index, message, time_left, alpha.
Rendered(q, now, draw_messages) ==
  IF draw_messages
  THEN [ i \in 1 .. Len(Kept(q, now)) |->
           [index |-> i - 1, text |-> Kept(q, now)[i].text,
            color |-> Kept(q, now)[i].color,
            time_left |-> TimeLeft(Kept(q, now)[i], now),
            alpha |-> Alpha(TimeLeft(Kept(q, now)[i], now))] ]
  ELSE <<>>

\* A completed call: its arguments, the clock reading it took and the queue
\* it found.  draw_messages is SConfig::bOnScreenDisplayMessages as
\* DrawMessages read it.
Call(op, type, now, draw_messages, before) ==
  [op |-> op, type |-> type, now |-> now, draw_messages |-> draw_messages,
   before |-> before]

NoCall == Call("none", "Typeless", U32(0, 0), FALSE, <<>>)

\* The locals of a DrawMessages that has not reached its lock_guard yet:
\* draw_messages and now.
NoRead == [active |-> FALSE, draw_messages |-> FALSE, now |-> U32(0, 0)]

QueueInit ==
  /\ s_messages = <<>>
  /\ clock \in InitClocks
  /\ nextText = 1
  /\ ticks = 0
  /\ lastTyped = [type \in MessageType |-> 0]
  /\ call = NoCall
  /\ untypedRun = [n |-> 0, size |-> 0]
  /\ drawRead = NoRead

\* void AddTypedMessage(MessageType type, std::string message, u32 ms, u32 rgba)
AddTypedMessage(type, ms, rgba) ==
  /\ nextText <= MaxAdds
  /\ s_messages' = Emplace(EraseKey(s_messages, type),
                           Message(type, nextText, U32Add(clock, ms), rgba,
                                   clock, ms))
  /\ nextText' = nextText + 1
  /\ lastTyped' = [lastTyped EXCEPT ![type] = nextText]
  /\ call' = Call("AddTypedMessage", type, clock, FALSE, s_messages)
  /\ untypedRun' = [n |-> 0, size |-> Len(s_messages')]
  /\ UNCHANGED <<clock, ticks, drawRead>>

\* void AddMessage(std::string message, u32 ms, u32 rgba)
AddMessage(ms, rgba) ==
  /\ nextText <= MaxAdds
  /\ s_messages' = Emplace(s_messages,
                           Message("Typeless", nextText, U32Add(clock, ms), rgba,
                                   clock, ms))
  /\ nextText' = nextText + 1
  /\ call' = Call("AddMessage", "Typeless", clock, FALSE, s_messages)
  /\ untypedRun' = [untypedRun EXCEPT !.n = @ + 1]
  /\ UNCHANGED <<clock, ticks, lastTyped, drawRead>>

\* void DrawMessages(), up to its lock_guard: it reads
\* SConfig::bOnScreenDisplayMessages and the clock.  The other calls can run
\* before it goes on.
DrawMessagesRead(draw_messages) ==
  /\ ~drawRead.active
  /\ drawRead' = [active |-> TRUE, draw_messages |-> draw_messages,
                  now |-> clock]
  /\ UNCHANGED <<s_messages, clock, nextText, ticks, lastTyped, call,
                 untypedRun>>

\* void DrawMessages(), from its lock_guard on: the loop over the queue, with
\* the draw_messages and the now it read before.
DrawMessages ==
  /\ drawRead.active
  /\ s_messages' = Kept(s_messages, drawRead.now)
  /\ call' = Call("DrawMessages", "Typeless", drawRead.now,
                  drawRead.draw_messages, s_messages)
  /\ untypedRun' = [n |-> 0, size |-> Len(s_messages')]
  /\ drawRead' = NoRead
  /\ UNCHANGED <<clock, nextText, ticks, lastTyped>>

\* What the latest call handed to DrawMessage (nothing, if it was no
\* DrawMessages).
Drawn ==
  IF call.op = "DrawMessages"
  THEN Rendered(call.before, call.now, call.draw_messages)
  ELSE <<>>

\* void ClearMessages()
ClearMessages ==
  /\ s_messages' = <<>>
  /\ call' = Call("ClearMessages", "Typeless", clock, FALSE, s_messages)
  /\ untypedRun' = [n |-> 0, size |-> 0]
  /\ UNCHANGED <<clock, nextText, ticks, lastTyped, drawRead>>

\* Time passes.
Tick(delta) ==
  /\ ticks < MaxTicks
  /\ clock' = U32Add(clock, delta)
  /\ ticks' = ticks + 1
  /\ UNCHANGED <<s_messages, nextText, lastTyped, call, untypedRun, drawRead>>


(***************************************************************************)
(* The drawing and hit-testing backend (Dear ImGui), as far as the control *)
(* bar uses it: rectangles, the hovered and the active item, buttons.      *)
(***************************************************************************)
ImVec2(x, y) == [x |-> x, y |-> y]
ImRect(min, max) == [Min |-> min, Max |-> max]

\* ImRect::Contains(p)
Contains(bb, p) ==
  p.x >= bb.Min.x /\ p.y >= bb.Min.y /\ p.x < bb.Max.x /\ p.y < bb.Max.y

\* No item: the ImGuiID 0.
NoId == "0"

\* The id a window makes active when the button goes down on its empty
\* space (ImGuiWindow::MoveId).
WindowMoveId == "#MOVE"

\* ImGui::NewFrame with the frame's mouse input: the hovered item of the
\* frame before moves to HoveredIdPreviousFrame, MouseClicked is the press,
\* and a press on a window's empty space ends with the release.
NewFrame(g, pos, down) ==
  [ActiveId |-> IF g.ActiveId = WindowMoveId /\ ~down THEN NoId ELSE g.ActiveId,
   HoveredId |-> NoId,
   HoveredIdPreviousFrame |-> g.HoveredId,
   MousePos |-> pos,
   MouseDown |-> down,
   MouseClicked |-> down /\ ~g.MouseDown]

\* ImGui::ItemHoverable(bb, id), its answer: the pointer is in bb, and no
\* other item is hovered already or active.
ItemHoverable(g, bb, id) ==
  /\ g.HoveredId = NoId \/ g.HoveredId = id
  /\ g.ActiveId = NoId \/ g.ActiveId = id
  /\ Contains(bb, g.MousePos)

\* ImGui::ItemHoverable(bb, id), its effect: SetHoveredID(id) when hovered.
SetHoveredID(g, hovered, id) ==
  IF hovered THEN [g EXCEPT !.HoveredId = id] ELSE g

SetActiveID(g, id) == [g EXCEPT !.ActiveId = id]
ClearActiveID(g) == [g EXCEPT !.ActiveId = NoId]

\* ImGui::EndFrame: a press that no item took makes the window under the
\* pointer active until the release, so that no item is hovered meanwhile.
UpdateMouseMovingWindowEndFrame(g) ==
  IF g.ActiveId = NoId /\ g.HoveredId = NoId /\ g.MouseClicked
  THEN SetActiveID(g, WindowMoveId) ELSE g

\* ImGui::GetHoveredID()
GetHoveredID(g) ==
  IF g.HoveredId # NoId THEN g.HoveredId ELSE g.HoveredIdPreviousFrame

\* ImGui::ButtonBehavior(bb, id, &hovered, &held, 0): a click is a press on
\* the button followed by a release on it.
ButtonBehavior(g, bb, id) ==
  LET hovered == ItemHoverable(g, bb, id)
      g1 == SetHoveredID(g, hovered, id)
      g2 == IF hovered /\ g1.MouseClicked THEN SetActiveID(g1, id) ELSE g1
      released == g2.ActiveId = id /\ ~g2.MouseDown
  IN  [g |-> IF released THEN ClearActiveID(g2) ELSE g2,
       pressed |-> released /\ hovered,
       hovered |-> hovered]

(***************************************************************************)
(* The playback control bar: geometry and inputs.                          *)
(***************************************************************************)
INT_MAX == 2147483647
\* Slippi::GAME_FIRST_FRAME and Slippi::PLAYBACK_FIRST_SAVE
GAME_FIRST_FRAME == -123
PLAYBACK_FIRST_SAVE == -122
BUTTON_WIDTH == 54

\* ImGui::GetIO().DisplaySize, the size of the control bar's window.
DisplaySize == ImVec2(1024, 512)
GetWindowWidth == DisplaySize.x
GetWindowHeight == DisplaySize.y

\* g_playbackStatus->lastFrame: a replay of half a minute and one of an hour.
LastFrame == PLAYBACK_FIRST_SAVE + 2000
LongLastFrame == 215817
SeekLastFrames == { LastFrame, LongLastFrame }
\* A replay of an hour and a half, and one of two hours less two minutes,
\* whose frames from a hundred minutes on have a label currTime does not
\* hold.
FmaLastFrame == 319956
OverrunLastFrame == 424560

\* frame_bb of SeekBar and hover_bb of SeekBarBehavior
SeekFrameBB ==
  ImRect(ImVec2(0, GetWindowHeight - 70), ImVec2(GetWindowWidth, GetWindowHeight))
SeekHoverBB ==
  ImRect(ImVec2(5, GetWindowHeight - 95),
         ImVec2(GetWindowWidth - 5, SeekFrameBB.Min.y))
\* frame_bb of VolumeBar
VolumeBB ==
  ImRect(ImVec2(BUTTON_WIDTH * 5, GetWindowHeight - 50),
         ImVec2(BUTTON_WIDTH * 5 + 80, GetWindowHeight - 32))
\* bb of a ButtonCustom placed by SetCursorPos(x, GetWindowHeight() - 62)
ButtonBB(x) ==
  ImRect(ImVec2(x, GetWindowHeight - 62),
         ImVec2(x + BUTTON_WIDTH, GetWindowHeight - 62 + BUTTON_WIDTH))

\* Pointer positions the frames draw from: two on the seek bar's hover
\* region, three on the volume bar (volume 0, 50, 80), one on each button,
\* one off every widget.
OnSeekA == ImVec2(256, GetWindowHeight - 82)
OnSeekB == ImVec2(213, GetWindowHeight - 82)
OffWidgets == ImVec2(600, 200)
OnVolume0 == ImVec2(BUTTON_WIDTH * 5, GetWindowHeight - 42)
OnVolume50 == ImVec2(BUTTON_WIDTH * 5 + 40, GetWindowHeight - 42)
OnVolume80 == ImVec2(BUTTON_WIDTH * 5 + 64, GetWindowHeight - 42)
OnJumpBack == ImVec2(30, GetWindowHeight - 42)
OnStepBack == ImVec2(BUTTON_WIDTH + 20, GetWindowHeight - 42)
OnStepForward == ImVec2(BUTTON_WIDTH * 2 + 20, GetWindowHeight - 42)
OnJumpForward == ImVec2(BUTTON_WIDTH * 3 + 20, GetWindowHeight - 42)
OnMute == ImVec2(BUTTON_WIDTH * 4 + 20, GetWindowHeight - 42)
OnHelp == ImVec2(GetWindowWidth - BUTTON_WIDTH * 2 + 20, GetWindowHeight - 42)
OnFullscreen == ImVec2(GetWindowWidth - BUTTON_WIDTH + 20, GetWindowHeight - 42)
\* On the seek bar's hover region near its left and its right end, and
\* beside the window, left and right of the bar.
OnSeekLeft == ImVec2(210, GetWindowHeight - 82)
OnSeekRight == ImVec2(1000, GetWindowHeight - 82)
OutLeft == ImVec2(-5, GetWindowHeight - 82)
OutRight == ImVec2(GetWindowWidth + 6, GetWindowHeight - 82)
\* The pointer positions of a session at the seek bar, at the volume
\* controls, and of a session watching the bar fade.
SeekPointers == { OnSeekA, OnSeekB, OffWidgets, OnJumpBack }
RerenderPointers == { OnSeekA, OffWidgets, OnJumpBack }
JumpPointers == { OnJumpBack, OnStepBack, OnStepForward, OnJumpForward }
BothBarsPointers == { OnSeekA, OnVolume50, OffWidgets }
VolumePointers == { OnVolume0, OnVolume50, OnVolume80, OnMute, OffWidgets }
IdlePointers == { OffWidgets, OnHelp, OnFullscreen }

\* SConfig::m_Volume when the control bar is first drawn.
InitVolumes == { 0, 45 }
\* Steps of the clock between two frames.
IdleDeltas == { U32(0, 1000), U32(0, 1500), U32(Half \div 2, 0) }
\* Seek requests the playback thread completes in one behaviour.
MaxSeeks == 2
\* Advances of the millisecond clock between the control bar's frames in one
\* behaviour.
MaxIdleTicks == 2

VARIABLES
  g,              \* the ImGui context: active and hovered item, mouse input
  frame,          \* static s32 frame, the seek bar's value
  showHelp,
  idle_tick,
  prev_mouse,
  seek_isHeld,    \* static bool isHeld of SeekBarBehavior
  volume_isHeld,  \* static bool isHeld of VolumeBarBehavior
  m_Volume,       \* SConfig::m_Volume
  prev,           \* static int prev, the volume the mute button remembers
  style_Alpha,    \* style.Alpha as <<numerator, denominator>>
  playback,       \* g_playbackStatus: targetFrameNum, currentPlaybackFrame
  host,           \* the calls the latest frame made to the host and to audio
  ui,             \* the latest frame: what it found and what it saw
  timeText,       \* the latest frame: the timestamps it drew
  seeksDone,      \* seek requests the playback thread has completed
  fp_contract,    \* the build contracts a + (b - a) * t into one fma
  slider          \* the latest call of the sliders' mapping on its own

controlVars == <<g, frame, showHelp, idle_tick, prev_mouse, seek_isHeld,
                 volume_isHeld, m_Volume, prev, style_Alpha, playback, host,
                 ui, timeText, seeksDone, fp_contract, slider>>

\* (int)(n / d) for d > 0: the quotient rounded towards zero.
Trunc(n, d) == IF n >= 0 THEN n \div d ELSE -((-n) \div d)

\* ---- float: IEEE 754 single precision, round to nearest, ties to even ----
\* The slider's arithmetic is done in float.  A float >= 0 is the record
\* [m, e] of the value m * 2^e with m < 2^24; integers below 2^24 in size are
\* floats as they are.  The operators cover slider sizes and ranges below
\* 2^24.
MantissaBits == 24

\* 2^k for k in 0 .. 30.
RECURSIVE TwoToThe(_)
TwoToThe(k) == IF k = 0 THEN 1 ELSE 2 * TwoToThe(k - 1)
PowersOfTwo == [k \in 0 .. 30 |-> TwoToThe(k)]
Pow2(k) == PowersOfTwo[k]
RECURSIVE BitLen(_)
BitLen(n) == IF n = 0 THEN 0 ELSE 1 + BitLen(n \div 2)

\* Rounding to nearest, ties to even: whether a mantissa of the given parity
\* with a remainder rem of 2 * half is rounded up.
RoundsUp(rem, half, odd) == rem > half \/ (rem = half /\ odd)

\* m after rounding up or not, renormalised when it reaches 2^24.
Rounded(m, e, up) ==
  IF up /\ m + 1 = Pow2(MantissaBits)
  THEN [m |-> Pow2(MantissaBits - 1), e |-> e + 1]
  ELSE [m |-> IF up THEN m + 1 ELSE m, e |-> e]

\* float(n) / float(w) for 0 < n < w < 2^23.  n is doubled until
\* w <= 2 * n, which takes the quotient into [1/2, 1); its first 24 bits
\* come as three digits of 8 bits, and the remainder decides the rounding.
RECURSIVE F32DivDigits(_, _, _, _, _)
F32DivDigits(r, w, m, e, digits) ==
  IF digits = 0
  THEN Rounded(m, e, RoundsUp(2 * r, w, m % 2 = 1))
  ELSE F32DivDigits((r * 256) % w, w, m * 256 + ((r * 256) \div w), e - 8,
                    digits - 1)
RECURSIVE F32DivFrom(_, _, _)
F32DivFrom(n, w, e) ==
  IF 2 * n >= w THEN F32DivDigits(n, w, 0, e, 3)
                ELSE F32DivFrom(2 * n, w, e - 1)

\* hi * 2^24 + lo, times 2^e, rounded to 24 bits; h is the length of hi.
\* The kept bits are hi's and lo's upper 24 - h; their parity is that of
\* bit h of lo, or of hi when h = 24 and no bit of lo is kept.
F32Shift(hi, lo, e, h) ==
  Rounded(hi * Pow2(MantissaBits - h) + (lo \div Pow2(h)), e + h,
          RoundsUp(2 * (lo % Pow2(h)), Pow2(h),
                   IF h = MantissaBits THEN hi % 2 = 1
                                       ELSE (lo \div Pow2(h)) % 2 = 1))
F32Norm(hi, lo, e) ==
  IF hi = 0 THEN [m |-> lo, e |-> e] ELSE F32Shift(hi, lo, e, BitLen(hi))

\* r * m for integers 0 <= r, m < 2^24: the 48-bit product hi * 2^24 + lo,
\* from the 12-bit halves of r and of m.
Half12 == Pow2(12)
Product(r, m) ==
  LET r1 == r \div Half12
      r0 == r % Half12
      m1 == m \div Half12
      m0 == m % Half12
      c1 == r1 * m0 + r0 * m1 + ((r0 * m0) \div Half12)
  IN  [hi |-> r1 * m1 + (c1 \div Half12),
       lo |-> (c1 % Half12) * Half12 + ((r0 * m0) % Half12)]

\* float(r) * t for an integer 0 <= r < 2^24: the product rounded to 24
\* bits.
F32Mul(r, t) == F32Norm(Product(r, t.m).hi, Product(r, t.m).lo, t.e)

\* (hi * 2^24 + lo) / 2^k for 0 <= k <= 48, a number below 2^24: its whole
\* part and its fraction f1 / 2^24 + f0 / 2^48.
FixedPoint(hi, lo, k) ==
  IF k <= MantissaBits
  THEN [whole |-> hi * Pow2(MantissaBits - k) + (lo \div Pow2(k)),
        f1 |-> (lo % Pow2(k)) * Pow2(MantissaBits - k),
        f0 |-> 0]
  ELSE [whole |-> hi \div Pow2(k - MantissaBits),
        f1 |-> (hi % Pow2(k - MantissaBits)) * Pow2(2 * MantissaBits - k)
                 + (lo \div Pow2(k - MantissaBits)),
        f0 |-> (lo % Pow2(k - MantissaBits)) * Pow2(2 * MantissaBits - k)]

\* 1 - f for a fraction 0 < f < 1.
Complement(f) ==
  IF f.f0 = 0
  THEN [f1 |-> Pow2(MantissaBits) - f.f1, f0 |-> 0]
  ELSE [f1 |-> Pow2(MantissaBits) - 1 - f.f1, f0 |-> Pow2(MantissaBits) - f.f0]

\* The fraction f against 2^-(q+1), half the step of a float with q bits of
\* fraction: -1 below it, 0 on it, 1 above it.
HalfUnit(f, q) ==
  IF q < MantissaBits
  THEN IF f.f1 < Pow2(MantissaBits - 1 - q) THEN -1
       ELSE IF f.f1 = Pow2(MantissaBits - 1 - q) /\ f.f0 = 0 THEN 0 ELSE 1
  ELSE IF f.f1 > 0 THEN 1
       ELSE IF f.f0 < Pow2(MantissaBits - 1) THEN -1
       ELSE IF f.f0 = Pow2(MantissaBits - 1) THEN 0 ELSE 1

\* The float nearest to a number of size J + x, J >= 0 whole and 0 < x < 1,
\* y = 1 - x: its sign, the whole part of its size and whether a fraction is
\* left.  A float of whole part J has q = 24 - BitLen(J) bits of fraction: x
\* within half a step of 1 is rounded up to J + 1, x within half a step of 0
\* down to J, a tie to the even mantissa; below 1 no x is rounded to 0.
F32Nearest(neg, J, x, y, q) ==
  LET up   == \/ HalfUnit(y, q) < 0
              \/ HalfUnit(y, q) = 0 /\ (q >= 1 \/ J % 2 = 1)
      down == /\ J >= 1
              /\ \/ HalfUnit(x, q) < 0
                 \/ HalfUnit(x, q) = 0 /\ (q >= 1 \/ J % 2 = 0)
  IN  [neg |-> neg, whole |-> IF up THEN J + 1 ELSE J,
       fraction |-> ~up /\ ~down]

\* float(a) + p for an integer a and an exact p >= 0 in fixed point, the sum
\* below 2^24 in size, rounded once.
F32AddFixed(a, p) ==
  IF p.f1 = 0 /\ p.f0 = 0
  THEN [neg |-> a + p.whole < 0,
        whole |-> IF a + p.whole < 0 THEN -(a + p.whole) ELSE a + p.whole,
        fraction |-> FALSE]
  ELSE IF a + p.whole >= 0
  THEN F32Nearest(FALSE, a + p.whole, p, Complement(p),
                  MantissaBits - BitLen(a + p.whole))
  ELSE F32Nearest(TRUE, -(a + p.whole) - 1, Complement(p), p,
                  MantissaBits - BitLen(-(a + p.whole) - 1))
\* float(a) + n / 2^k, n = n.hi * 2^24 + n.lo.
F32Add(a, n, k) == F32AddFixed(a, FixedPoint(n.hi, n.lo, k))
\* float(a) + p for a float p >= 0 with p.e <= 0.
F32AddFloat(a, p) == F32Add(a, [hi |-> 0, lo |-> p.m], -p.e)

\* (int)s of a float s: the fraction is dropped.
IntCastFloor(s) ==
  IF s.neg THEN -(s.whole + (IF s.fraction THEN 1 ELSE 0)) ELSE s.whole
IntCast(s) ==
  IF s.neg THEN -s.whole ELSE s.whole

\* template<typename T> T ImLerp(T a, T b, float t) with T = int:
\* (int)(a + (b - a) * t), for a <= b.  The build rounds the product and
\* then the sum, or, where it contracts the two into a fused multiply-add
\* (fma), the exact a + (b - a) * t once.
ImLerp(a, b, t, fma) ==
  IntCast(IF fma THEN F32Add(a, Product(b - a, t.m), -t.e)
                 ELSE F32AddFloat(a, F32Mul(b - a, t)))

\* clicked_t = (slider_sz > 0.0f)
\*   ? ImClamp((mouse_abs_pos - slider_usable_pos_min) / slider_sz, 0.0f, 1.0f)
\*   : 0.0f
\* 0.0f is [0, 0] and 1.0f is [2^23, -23].
ClickedT(slider_sz, offset) ==
  IF slider_sz > 0 /\ offset > 0
  THEN IF offset >= slider_sz
       THEN [m |-> Pow2(MantissaBits - 1), e |-> 1 - MantissaBits]
       ELSE F32DivFrom(offset, slider_sz, 0)
  ELSE [m |-> 0, e |-> 0]

\* The value a slider of the integer range [v_min, v_max] maps the pointer
\* to: new_value = ImLerp(v_min, v_max, clicked_t).
SliderValueUnclamped(bb, v_min, v_max, mouse_x, fma) ==
  LET slider_sz == bb.Max.x - bb.Min.x
      num == IF slider_sz > 0 THEN mouse_x - bb.Min.x ELSE 0
      den == IF slider_sz > 0 THEN slider_sz ELSE 1
  IN  Trunc(v_min * den + (v_max - v_min) * num, den)
SliderValue(bb, v_min, v_max, mouse_x, fma) ==
  ImLerp(v_min, v_max, ClickedT(bb.Max.x - bb.Min.x, mouse_x - bb.Min.x), fma)


(***************************************************************************)
(* The timestamp label: GetTimeForFrame as a function of the frame index.  *)
(***************************************************************************)
\* g_playbackStatus->lastFrame of replays of up to two hours, two minutes
\* less two frames apart.
LabelStep == 7198
MaxLabelSteps == 59
LabelFrames == { PLAYBACK_FIRST_SAVE + LabelStep * k : k \in 0 .. MaxLabelSteps }

\* char currTime[6]
CurrTimeSize == 6

DigitChar == << "0", "1", "2", "3", "4", "5", "6", "7", "8", "9" >>

\* The decimal digits of n >= 0.
RECURSIVE Digits(_)
Digits(n) ==
  IF n < 10 THEN << DigitChar[n + 1] >>
  ELSE Digits(n \div 10) \o << DigitChar[(n % 10) + 1] >>

\* printf's %02d: the sign and the digits, zeros in front of the digits up
\* to a width of two, never cut.
TwoDigitTexts ==
  [n \in 0 .. 99 |-> << DigitChar[(n \div 10) + 1], DigitChar[(n % 10) + 1] >>]
Format02d(n) ==
  IF n < 0 THEN << "-" >> \o Digits(-n)
  ELSE IF n < 100 THEN TwoDigitTexts[n]
  ELSE Digits(n)

\* C's % on ints: the remainder of the division that rounds towards zero.
Rem(n, d) == n - d * Trunc(n, d)

\* What a call of GetTimeForFrame(of) came to: the std::string it returned,
\* as its text, whether bytes that are not the text's follow it (stray) and
\* whether it holds bytes other than the text's (other: text is then one
\* instance of what it may hold), or the process stopped in the call
\* (aborted).
Label(of, text, stray, other, aborted) ==
  [of |-> of, text |-> text, stray |-> stray, other |-> other,
   aborted |-> aborted]

\* No call.
NoLabel == Label(0, <<>>, FALSE, FALSE, FALSE)

\* Lines 151-156: the text sprintf writes for currFrame.
Written(currFrame) ==
  LET currSeconds   == Trunc(currFrame - GAME_FIRST_FRAME, 60)
      currMinutes   == Trunc(currSeconds, 60)
      currRemainder == Rem(currSeconds, 60)
  IN  Format02d(currMinutes) \o << ":" >> \o Format02d(currRemainder)

\* static std::string GetTimeForFrame(s32 currFrame): the outcomes of the
\* call.  sprintf writes the text and a terminating zero into currTime; a
\* text that needs more than the array holds is written past its end, which
\* leaves the behaviour undefined: the call returns the text as written, or
\* the text with whatever bytes follow it on the stack, or other bytes, or
\* the process is stopped.
Returned(currFrame, text) ==
  IF Len(text) + 1 <= CurrTimeSize
  THEN { Label(currFrame, text, FALSE, FALSE, FALSE) }
  ELSE { Label(currFrame, text, FALSE, FALSE, FALSE),
         Label(currFrame, text, TRUE, FALSE, FALSE),
         Label(currFrame, <<>>, FALSE, TRUE, FALSE),
         Label(currFrame, <<>>, FALSE, FALSE, TRUE) }
GetTimeForFrame(currFrame) == Returned(currFrame, Written(currFrame))

\* Line 498: the window's name, a string of the frame's stack.
WindowName ==
  << "S", "l", "i", "p", "p", "i", " ", "P", "l", "a", "y", "b", "a", "c", "k",
     " ", "C", "o", "n", "t", "r", "o", "l", "s" >>

\* The texts a frame has drawn, or where it stopped.
NoTimeText ==
  [tooltip_drawn |-> FALSE, tooltip |-> NoLabel, playbackTime |-> NoLabel,
   endTime |-> NoLabel, stopped |-> FALSE]

\* Line 327, the label above the seek bar's grab, drawn when the bar is
\* hovered or held, and lines 680-683, the time text: the calls of
\* GetTimeForFrame of one frame, in their order, none after one that stopped
\* the process.  In a frame one of whose calls writes past currTime the
\* strings of lines 680-681 may hold other bytes than their call wrote:
\* playbackTime nothing, the window's name or endTime's text, endTime the
\* text of playbackTime and the " / " of line 682, among others.
TimeTexts(c) ==
  LET overruns(f) == Len(Written(f)) + 1 > CurrTimeSize
      undefined == \/ c.seek_tooltip /\ overruns(c.seek_new_value)
                   \/ overruns(c.currentPlaybackFrame)
                   \/ overruns(c.lastFrame)
      others(f, texts) ==
        IF undefined
        THEN { Label(f, text, FALSE, TRUE, FALSE) : text \in texts }
        ELSE {}
      tips == IF c.seek_tooltip THEN GetTimeForFrame(c.seek_new_value)
                                ELSE { NoLabel }
  IN  { [tooltip_drawn |-> c.seek_tooltip,
         tooltip |-> t,
         playbackTime |-> IF t.aborted THEN NoLabel ELSE p,
         endTime |-> IF t.aborted \/ p.aborted THEN NoLabel ELSE e,
         stopped |-> t.aborted \/ p.aborted \/ e.aborted] :
        t \in tips,
        p \in GetTimeForFrame(c.currentPlaybackFrame)
                \cup others(c.currentPlaybackFrame,
                            { <<>>, WindowName, Written(c.lastFrame) }),
        e \in GetTimeForFrame(c.lastFrame)
                \cup others(c.lastFrame,
                            { Written(c.currentPlaybackFrame)
                                \o << " ", "/", " " >> }) }


(***************************************************************************)
(* The playback control bar: one frame of DrawSlippiPlaybackControls.      *)
(* The widgets run in the order of the source on a record c of the state   *)
(* they read and write; each operator returns the record as it leaves it.  *)
(***************************************************************************)
\* Lines 502-511: the idle timer.  diff is the s32 time since the pointer
\* last moved, less the first second.
IdleTimer(c, currTime) ==
  LET moved == ~(c.g.MousePos.x = c.prev_mouse.x /\ c.g.MousePos.y = c.prev_mouse.y)
      tick  == IF moved THEN currTime ELSE c.idle_tick
      d     == ToS32(U32Sub(currTime, tick))
  IN  [c EXCEPT !.idle_tick = tick,
                !.prev_mouse = c.g.MousePos,
                !.diff = IF d < 1000 THEN 0 ELSE d - 1000]

\* SeekBarBehavior: when the drag ends and the value is committed.
SeekCommitWhileHeld(isHeld, isDown) == isHeld
SeekCommit(isHeld, isDown) == isHeld /\ ~isDown

\* SeekBarBehavior: whether the pointer's value is written to *v.
SeekPreview(hovered, isHeld, isDown) == (hovered \/ isHeld) /\ isDown

\* Line 337: the value the progress bar shows while the bar is not held.
ProgressTarget(targetFrameNum, currentPlaybackFrame) == targetFrameNum
Progress(targetFrameNum, currentPlaybackFrame) ==
  IF targetFrameNum = INT_MAX THEN currentPlaybackFrame ELSE targetFrameNum

\* bool SeekBarBehavior(...) on v = &frame, and the caller's
\* if (SeekBar(...)) Host_PlaybackSeek();
\* When the text of the tooltip's GetTimeForFrame(new_value) of line 327
\* overruns currTime, the stack is written past the array and the
\* behaviour is undefined: what line 341 returns is then c.returned, true
\* or false whatever lines 289-296 left in value_changed.
SeekBarBehavior(c, id, hovered, new_value) ==
  LET isDown    == c.g.MouseDown
      isActive  == c.g.ActiveId = id
      g1        == SetHoveredID(c.g, hovered, id)
      g2        == IF ~c.seek_isHeld /\ isActive THEN ClearActiveID(g1) ELSE g1
      v1        == IF SeekPreview(hovered, c.seek_isHeld, isDown)
                      /\ c.frame # new_value
                   THEN new_value ELSE c.frame
      g3        == IF c.seek_isHeld THEN SetActiveID(g2, id) ELSE g2
      isHeld    == IF c.seek_isHeld THEN c.seek_isHeld /\ isDown
                                    ELSE hovered /\ isDown
      value_changed == SeekCommit(c.seek_isHeld, isDown)
      target    == IF value_changed THEN v1 ELSE c.targetFrameNum
      v2        == IF ~isHeld THEN Progress(target, c.currentPlaybackFrame)
                   ELSE v1
      overrun   == (hovered \/ isHeld)
                     /\ Len(Written(new_value)) + 1 > CurrTimeSize
      returned  == IF overrun /\ c.returned # "value_changed"
                   THEN c.returned = "true" ELSE value_changed
  IN  [c EXCEPT !.g = g3,
                !.frame = v2,
                !.seek_isHeld = isHeld,
                !.targetFrameNum = target,
                !.seeks = IF returned THEN Append(@, target) ELSE @,
                !.seek_hovered = hovered,
                !.seek_changed = returned,
                !.seek_new_value = new_value,
                !.seek_tooltip = hovered \/ isHeld,
                !.seek_overrun = overrun]
\* Lines 244 and 251-279: hovered, and new_value, the pointer's value when
\* the bar is hovered or held.
SeekBarHovered(c, id, hovered) ==
  SeekBarBehavior(c, id, hovered,
                  IF hovered \/ c.seek_isHeld
                  THEN SliderValue(SeekFrameBB, PLAYBACK_FIRST_SAVE,
                                   c.lastFrame, c.g.MousePos.x, c.fma)
                  ELSE 0)
SeekBar(c) ==
  SeekBarHovered(c, "SlippiSeek", ItemHoverable(c.g, SeekHoverBB, "SlippiSeek"))

\* std::max(0.0001f, 1.0f - (diff / 1000.0f)) as a fraction of 10000.
FadeNoFloor(diff) ==
  IF diff >= 1000 THEN <<0, 10000>> ELSE <<10000 - 10 * diff, 10000>>
Fade(diff) ==
  IF diff >= 1000 THEN <<1, 10000>> ELSE <<10000 - 10 * diff, 10000>>

\* Line 533: style.Alpha.
StyleAlpha(c) ==
  [c EXCEPT !.Alpha = IF c.showHelp \/ GetHoveredID(c.g) # NoId
                      THEN <<10000, 10000>> ELSE Fade(c.diff),
            !.hovered_id = GetHoveredID(c.g)]

\* Lines 541-597: a jump or step button at x, moving by offset frames.
JumpAlways(targetFrameNum) == TRUE
JumpAllowed(targetFrameNum) == targetFrameNum = INT_MAX

JumpButton(c, id, x, offset) ==
  LET b    == ButtonBehavior(c.g, ButtonBB(x), id)
      fire == b.pressed /\ JumpAllowed(c.targetFrameNum)
      to   == c.currentPlaybackFrame + offset
  IN  [c EXCEPT !.g = b.g,
                !.targetFrameNum = IF fire THEN to ELSE @,
                !.seeks = IF fire THEN Append(@, to) ELSE @,
                !.jump_pressed = IF b.pressed THEN id ELSE @]

\* Line 615: the volume a click on the mute button restores.
RestoredAlwaysDefault(remembered) == 30
Restored(remembered) == IF remembered = 0 THEN 30 ELSE remembered

\* Lines 607-622: the mute button.  Its label, hence its id, is the icon
\* for the current volume.
MuteButton(c) ==
  LET id == IF c.m_Volume = 0 THEN "VOLUME_OFF" ELSE "VOLUME_UP"
      b  == ButtonBehavior(c.g, ButtonBB(BUTTON_WIDTH * 4), id)
      volume == IF ~b.pressed THEN c.m_Volume
                ELSE IF c.m_Volume = 0 THEN Restored(c.prev) ELSE 0
  IN  [c EXCEPT !.g = b.g,
                !.prev = IF b.pressed /\ c.m_Volume # 0 THEN c.m_Volume ELSE @,
                !.m_Volume = volume,
                !.volumes = IF b.pressed
                            THEN Append(@, [by |-> "mute", volume |-> volume])
                            ELSE @,
                !.mute_pressed = b.pressed]

\* VolumeBarBehavior: whether the pointer's value is written to *v (and,
\* by the caller, applied to the sound stream).
VolumeChangeOnPress(hovered, isHeld, isDown, clicked) == hovered /\ clicked
VolumeChange(hovered, isHeld, isDown, clicked) == (isHeld \/ hovered) /\ isDown

\* bool VolumeBarBehavior(...) on v = &m_Volume, and the caller's
\* if (VolumeBar(...)) AudioCommon::UpdateSoundStream();
VolumeBarBehavior(c, id, hovered, new_value) ==
  LET isDown    == c.g.MouseDown
      g1        == SetHoveredID(c.g, hovered, id)
      isActive  == c.g.ActiveId = id
      g2        == IF ~c.volume_isHeld /\ isActive THEN ClearActiveID(g1) ELSE g1
      g3        == IF c.volume_isHeld THEN SetActiveID(g2, id) ELSE g2
      value_changed ==
        /\ VolumeChange(hovered, c.volume_isHeld, isDown, c.g.MouseClicked)
        /\ c.m_Volume # new_value
      isHeld    == IF c.volume_isHeld THEN c.volume_isHeld /\ isDown
                                      ELSE hovered /\ isDown
  IN  [c EXCEPT !.g = g3,
                !.m_Volume = IF value_changed THEN new_value ELSE @,
                !.volume_isHeld = isHeld,
                !.volumes = IF value_changed
                            THEN Append(@, [by |-> "bar", volume |-> new_value])
                            ELSE @,
                !.volume_hovered = hovered,
                !.volume_at_bar = c.m_Volume]
\* Lines 375 and 386-416: hovered, and new_value, the pointer's value when
\* the bar is hovered or held.
VolumeBarHovered(c, id, hovered) ==
  VolumeBarBehavior(c, id, hovered,
                    IF c.volume_isHeld \/ hovered
                    THEN SliderValue(VolumeBB, 0, 100, c.g.MousePos.x, c.fma)
                    ELSE 0)
VolumeBar(c) ==
  VolumeBarHovered(c, "SlippiVolume",
                   ItemHoverable(c.g, VolumeBB, "SlippiVolume"))

\* Lines 628-632: the help button.
HelpButton(c) ==
  LET b == ButtonBehavior(c.g, ButtonBB(GetWindowWidth - BUTTON_WIDTH * 2),
                          "QUESTION_CIRCLE")
  IN  [c EXCEPT !.g = b.g,
                !.showHelp = IF b.pressed THEN ~c.showHelp ELSE @]

\* Lines 662-666: the fullscreen button.
FullscreenButton(c) ==
  LET b == ButtonBehavior(c.g, ButtonBB(GetWindowWidth - BUTTON_WIDTH), "EXPAND")
  IN  [c EXCEPT !.g = b.g,
                !.fullscreens = IF b.pressed THEN @ + 1 ELSE @]

\* void DrawSlippiPlaybackControls(), in a frame whose mouse input is pos
\* and down and whose clock reading is currTime; returned is what
\* SeekBarBehavior returns after an overrun of its tooltip's label
\* ("value_changed": what it computed).
DrawSlippiPlaybackControls(pos, down, currTime, returned) ==
  LET c0 == [g |-> NewFrame(g, pos, down),
             frame |-> frame, showHelp |-> showHelp, idle_tick |-> idle_tick,
             prev_mouse |-> prev_mouse, seek_isHeld |-> seek_isHeld,
             volume_isHeld |-> volume_isHeld, m_Volume |-> m_Volume,
             prev |-> prev, Alpha |-> style_Alpha,
             targetFrameNum |-> playback.targetFrameNum,
             currentPlaybackFrame |-> playback.currentPlaybackFrame,
             lastFrame |-> playback.lastFrame,
             diff |-> 0, seeks |-> <<>>, volumes |-> <<>>, fullscreens |-> 0,
             seek_hovered |-> FALSE, seek_changed |-> FALSE,
             volume_hovered |-> FALSE, hovered_id |-> NoId,
             mute_pressed |-> FALSE, volume_at_bar |-> m_Volume,
             jump_pressed |-> NoId, seek_new_value |-> 0,
             seek_tooltip |-> FALSE, seek_overrun |-> FALSE,
             fma |-> fp_contract, returned |-> returned]
      c1 == SeekBar(IdleTimer(c0, currTime))
      c2 == StyleAlpha(c1)
      c3 == JumpButton(c2, "FAST_BACKWARD", 0, -1200)
      c4 == JumpButton(c3, "STEP_BACKWARD", BUTTON_WIDTH, -300)
      c5 == JumpButton(c4, "STEP_FORWARD", BUTTON_WIDTH * 2, 300)
      c6 == JumpButton(c5, "FAST_FORWARD", BUTTON_WIDTH * 3, 1200)
      c7 == VolumeBar(MuteButton(c6))
  IN  FullscreenButton(HelpButton(c7))

\* What the latest frame observed on its way (jump_pressed: the jump button
\* whose ButtonCustom returned true, if any), and what the session has
\* seen so far: lastNonzero is the latest nonzero volume (0: none yet),
\* lastMuted the volume at the latest click on the mute button made at a
\* nonzero volume (0: none yet), mutedFrom that volume for as long as the
\* volume bar has not changed the volume since and no click has restored it
\* (0 otherwise), round_trip whether the frame's click on the mute button
\* found such a volume to restore, moved_at the clock reading of the latest
\* frame whose pointer position differed from that of the frame before.
NoFrame ==
  [op |-> "none", now |-> U32(0, 0), diff |-> 0, seek_hovered |-> FALSE,
   seek_changed |-> FALSE, volume_hovered |-> FALSE, hovered_id |-> NoId,
   mute_pressed |-> FALSE, volume_at_bar |-> 0, jump_pressed |-> NoId,
   round_trip |-> FALSE, mutedFrom |-> 0,
   lastNonzero |-> 0, lastMuted |-> 0, moved_at |-> U32(0, 0)]

\* No call of the mapping on its own.
NoSlider ==
  [called |-> FALSE, slider_sz |-> 0, v_min |-> 0, v_max |-> 0,
   mouse_x |-> 0, new_value |-> 0]

ControlsInit(volumes, lastFrames, builds) ==
  /\ g = [ActiveId |-> NoId, HoveredId |-> NoId, HoveredIdPreviousFrame |-> NoId,
          MousePos |-> ImVec2(0, 0), MouseDown |-> FALSE, MouseClicked |-> FALSE]
  /\ frame = 0
  /\ showHelp = FALSE
  /\ idle_tick = clock
  /\ prev_mouse = ImVec2(0, 0)
  /\ seek_isHeld = FALSE
  /\ volume_isHeld = FALSE
  /\ m_Volume \in volumes
  /\ prev = 0
  /\ style_Alpha = <<10000, 10000>>
  /\ \E lastFrame \in lastFrames :
       playback = [targetFrameNum |-> INT_MAX, currentPlaybackFrame |-> 0,
                   lastFrame |-> lastFrame]
  /\ host = [seeks |-> <<>>, volumes |-> <<>>, fullscreens |-> 0]
  /\ ui = [NoFrame EXCEPT !.lastNonzero = m_Volume, !.moved_at = clock]
  /\ timeText = NoTimeText
  /\ seeksDone = 0
  /\ fp_contract \in builds
  /\ slider = NoSlider

\* A frame in which a call of GetTimeForFrame stopped the process: the
\* calls to the host it made before, and nothing of the process's own state.
StoppedFrame(c, texts) ==
  /\ timeText' = texts
  /\ host' = IF texts.tooltip.aborted
             THEN [seeks |-> <<>>, volumes |-> <<>>, fullscreens |-> 0]
             ELSE [seeks |-> c.seeks, volumes |-> c.volumes,
                   fullscreens |-> c.fullscreens]
  /\ ui' = [ui EXCEPT !.op = "stopped"]
  /\ UNCHANGED <<g, frame, showHelp, idle_tick, prev_mouse, seek_isHeld,
                 volume_isHeld, m_Volume, prev, style_Alpha, playback,
                 seeksDone, fp_contract>>
  /\ slider' = NoSlider

\* auto timeString = playbackTime + " / " + endTime, of a frame that drew
\* it.
TimeString(texts) ==
  texts.playbackTime.text \o << " ", "/", " " >> \o texts.endTime.text

\* The state a frame leaves behind, c being the record at its end and texts
\* the timestamps it drew.
CompletedFrame(c, texts) ==
  /\ timeText' = texts
  /\ g' = UpdateMouseMovingWindowEndFrame(c.g)
  /\ frame' = c.frame
  /\ showHelp' = c.showHelp
  /\ idle_tick' = c.idle_tick
  /\ prev_mouse' = c.prev_mouse
  /\ seek_isHeld' = c.seek_isHeld
  /\ volume_isHeld' = c.volume_isHeld
  /\ m_Volume' = c.m_Volume
  /\ prev' = c.prev
  /\ style_Alpha' = c.Alpha
  /\ playback' = [playback EXCEPT !.targetFrameNum = c.targetFrameNum]
  /\ host' = [seeks |-> c.seeks, volumes |-> c.volumes,
              fullscreens |-> c.fullscreens]
  /\ ui' = [op |-> "frame", now |-> clock, diff |-> c.diff,
            seek_hovered |-> c.seek_hovered, seek_changed |-> c.seek_changed,
            volume_hovered |-> c.volume_hovered,
            hovered_id |-> c.hovered_id, mute_pressed |-> c.mute_pressed,
            volume_at_bar |-> c.volume_at_bar,
            jump_pressed |-> c.jump_pressed,
            round_trip |-> c.mute_pressed /\ m_Volume = 0 /\ ui.mutedFrom # 0,
            mutedFrom |-> IF c.m_Volume # c.volume_at_bar THEN 0
                          ELSE IF c.mute_pressed THEN m_Volume
                          ELSE ui.mutedFrom,
            lastNonzero |-> IF c.m_Volume # 0 THEN c.m_Volume
                            ELSE ui.lastNonzero,
            lastMuted |-> IF c.mute_pressed /\ m_Volume # 0 THEN m_Volume
                          ELSE ui.lastMuted,
            moved_at |-> IF c.g.MousePos # g.MousePos THEN clock
                         ELSE ui.moved_at]
  /\ slider' = NoSlider
  /\ UNCHANGED <<seeksDone, fp_contract>>

EndFrame(c) ==
  \E texts \in TimeTexts(c) :
    IF texts.stopped THEN StoppedFrame(c, texts) ELSE CompletedFrame(c, texts)

\* The frame c, or, when the seek bar's tooltip overran currTime in it, the
\* frame with either value returned by SeekBarBehavior.
SeekBarReturned(c, pos, down) ==
  IF c.seek_overrun
  THEN \E returned \in { "true", "false" } :
         EndFrame(DrawSlippiPlaybackControls(pos, down, clock, returned))
  ELSE EndFrame(c)

\* One rendered frame of the playback build, while the process runs.
Frame(pos, down) ==
  /\ ui.op # "stopped"
  /\ SeekBarReturned(
       DrawSlippiPlaybackControls(pos, down, clock, "value_changed"),
       pos, down)

\* A frame in which the control bar is not drawn (no replay is playing):
\* ImGui still takes the mouse input, an item that was not submitted stops
\* being the active one, and a press goes to whatever else is under the
\* pointer. The statics of the bar are left as they are.
HiddenFrame(pos, down) ==
  /\ ui.op # "stopped"
  /\ g' = LET n == NewFrame(g, pos, down)
          IN  UpdateMouseMovingWindowEndFrame(
                IF n.ActiveId = WindowMoveId THEN n ELSE ClearActiveID(n))
  /\ host' = [seeks |-> <<>>, volumes |-> <<>>, fullscreens |-> 0]
  /\ ui' = [ui EXCEPT !.op = "hidden", !.seek_hovered = FALSE,
                      !.seek_changed = FALSE, !.volume_hovered = FALSE,
                      !.hovered_id = NoId, !.mute_pressed = FALSE,
                      !.jump_pressed = NoId, !.round_trip = FALSE]
  /\ UNCHANGED <<frame, showHelp, idle_tick, prev_mouse, seek_isHeld,
                 volume_isHeld, m_Volume, prev, style_Alpha, playback,
                 timeText, seeksDone, fp_contract>>
  /\ slider' = NoSlider

\* The playback thread completes the requested seek: playback continues
\* from the target, brought into the range of the replay, and the target
\* is unset.
SeekCompleted ==
  /\ ui.op # "stopped"
  /\ playback.targetFrameNum # INT_MAX
  /\ seeksDone < MaxSeeks
  /\ playback' = [playback EXCEPT
                    !.currentPlaybackFrame =
                       Max(PLAYBACK_FIRST_SAVE,
                           Min(playback.lastFrame, playback.targetFrameNum)),
                    !.targetFrameNum = INT_MAX]
  /\ seeksDone' = seeksDone + 1
  /\ ui' = [ui EXCEPT !.op = "playback"]
  /\ UNCHANGED <<g, frame, showHelp, idle_tick, prev_mouse, seek_isHeld,
                 volume_isHeld, m_Volume, prev, style_Alpha, host, timeText,
                 fp_contract, slider>>

\* The mapping of a slider on its own, before the control bar is first
\* drawn: SliderValue for a slider from 0 to slider_sz.
SliderSizes == { 0, 640, 1024 }
SliderRanges ==
  { <<-5, 5>>, <<PLAYBACK_FIRST_SAVE, LastFrame>>,
    <<PLAYBACK_FIRST_SAVE, FmaLastFrame>> }
SliderMouse == { -5, 0, 30, 210, 576, 640, 1030 }
SliderValueCall(slider_sz, v_min, v_max, mouse_x) ==
  /\ ui.op = "none"
  /\ slider' = [called |-> TRUE, slider_sz |-> slider_sz, v_min |-> v_min,
                v_max |-> v_max, mouse_x |-> mouse_x,
                new_value |->
                  SliderValue(ImRect(ImVec2(0, 0), ImVec2(slider_sz, 0)),
                              v_min, v_max, mouse_x, fp_contract)]
  /\ UNCHANGED <<g, frame, showHelp, idle_tick, prev_mouse, seek_isHeld,
                 volume_isHeld, m_Volume, prev, style_Alpha, playback, host,
                 ui, timeText, seeksDone, fp_contract>>

\* Time passes between two frames.
IdleTick(delta) ==
  /\ ticks < MaxIdleTicks
  /\ clock' = U32Add(clock, delta)
  /\ ticks' = ticks + 1
  /\ UNCHANGED <<s_messages, nextText, lastTyped, call, untypedRun, drawRead>>
  /\ UNCHANGED controlVars

(***************************************************************************)
(* The message queue under its mutex: the calls of concurrent threads,     *)
(* statement by statement.                                                 *)
(***************************************************************************)
\* Calls the threads make in one behaviour, all together.
MaxCalls == 4
\* Two threads that call AddTypedMessage, one that calls ClearMessages,
\* and the presentation thread, which calls DrawMessages.
Producers == { "p1", "p2" }
Threads == Producers \cup { "clear", "draw" }
NoThread == "none"
ThreadTypes == { "NetPlayPing", "NetPlayBuffer" }
ThreadDurations == { U32(0, 0), U32(0, 1024) }

VARIABLES
  pc,             \* thread -> the statement it is at
  mutex,          \* the thread that holds s_messages_mutex, or NoThread
  adding,         \* producer -> arguments of its AddTypedMessage call
  drawing,        \* the locals of the DrawMessages call
  calls           \* calls begun so far

threadVars == <<pc, mutex, adding, drawing, calls>>

NotAdding ==
  [type |-> "Typeless", ms |-> U32(0, 0), rgba |-> U32(0, 0), erased |-> 0]
NotDrawing ==
  [draw_messages |-> FALSE, now |-> U32(0, 0), it |-> 0, snapshot |-> <<>>,
   visited |-> <<>>, rendered |-> <<>>]

ThreadsInit ==
  /\ pc = [t \in Threads |-> "idle"]
  /\ mutex = NoThread
  /\ adding = [p \in Producers |-> NotAdding]
  /\ drawing = NotDrawing
  /\ calls = 0

\* std::lock_guard lock{ s_messages_mutex }; the constructor returns once
\* no other thread holds the mutex.
AddTypedWithoutLock(holder) == TRUE
AddTypedLock(holder) == holder = NoThread
DrawLock(holder) == holder = NoThread
ClearWithoutLock(holder) == TRUE
ClearLock(holder) == holder = NoThread

Goto(t, label) == pc' = [pc EXCEPT ![t] = label]
Begin(t) ==
  /\ pc[t] = "idle"
  /\ calls < MaxCalls
  /\ calls' = calls + 1
  /\ Goto(t, "lock")

queueGhosts == <<clock, ticks, lastTyped, call, untypedRun, drawRead>>

\* A producer calls AddTypedMessage(type, message, ms, rgba).
AddTypedBegin(p, type, ms, rgba) ==
  /\ Begin(p)
  /\ adding' = [adding EXCEPT ![p] = [type |-> type, ms |-> ms, rgba |-> rgba,
                                      erased |-> 0]]
  /\ UNCHANGED <<s_messages, nextText, queueGhosts, mutex, drawing>>

\* Line 99.
AddTypedAcquire(p) ==
  /\ pc[p] = "lock"
  /\ AddTypedLock(mutex)
  /\ mutex' = p
  /\ Goto(p, "erase")
  /\ UNCHANGED <<s_messages, nextText, queueGhosts, adding, drawing, calls>>

\* Line 100; erased is the number of entries that went.
AddTypedErase(p) ==
  /\ pc[p] = "erase"
  /\ s_messages' = EraseKey(s_messages, adding[p].type)
  /\ adding' = [adding EXCEPT ![p].erased = Len(s_messages) - Len(s_messages')]
  /\ Goto(p, "emplace")
  /\ UNCHANGED <<nextText, queueGhosts, mutex, drawing, calls>>

\* Line 101.
AddTypedEmplace(p) ==
  /\ pc[p] = "emplace"
  /\ s_messages' = Emplace(s_messages,
                           Message(adding[p].type, nextText,
                                   U32Add(clock, adding[p].ms), adding[p].rgba,
                                   clock, adding[p].ms))
  /\ nextText' = nextText + 1
  /\ Goto(p, "unlock")
  /\ UNCHANGED <<queueGhosts, mutex, adding, drawing, calls>>

\* The end of a function's scope releases its lock_guard.
Release(t) ==
  /\ pc[t] = "unlock"
  /\ mutex' = NoThread
  /\ Goto(t, "idle")
  /\ UNCHANGED <<s_messages, nextText, queueGhosts, adding, drawing, calls>>

\* Line 102.
AddTypedRelease(p) == Release(p)

\* The clearing thread calls ClearMessages().
ClearBegin ==
  /\ Begin("clear")
  /\ UNCHANGED <<s_messages, nextText, queueGhosts, mutex, adding, drawing>>

\* Line 143.
ClearAcquire ==
  /\ pc["clear"] = "lock"
  /\ ClearLock(mutex)
  /\ mutex' = "clear"
  /\ Goto("clear", "clear")
  /\ UNCHANGED <<s_messages, nextText, queueGhosts, adding, drawing, calls>>

\* Line 144.
ClearClear ==
  /\ pc["clear"] = "clear"
  /\ s_messages' = <<>>
  /\ Goto("clear", "unlock")
  /\ UNCHANGED <<nextText, queueGhosts, mutex, adding, drawing, calls>>

\* Line 145.
ClearRelease == Release("clear")

\* The presentation thread calls DrawMessages(): lines 113-117, before the
\* lock is taken.
DrawBegin(draw_messages) ==
  /\ Begin("draw")
  /\ drawing' = [NotDrawing EXCEPT !.draw_messages = draw_messages,
                                   !.now = clock]
  /\ UNCHANGED <<s_messages, nextText, queueGhosts, mutex, adding>>

\* Lines 119 and 121: the lock, and it = s_messages.begin().  snapshot
\* records the queue as the call finds it.
DrawAcquire ==
  /\ pc["draw"] = "lock"
  /\ DrawLock(mutex)
  /\ mutex' = "draw"
  /\ drawing' = [drawing EXCEPT !.it = 1, !.snapshot = s_messages]
  /\ Goto("draw", "loop")
  /\ UNCHANGED <<s_messages, nextText, queueGhosts, adding, calls>>

\* Lines 126-130: whether the pass erases the entry it is at.
ErasesWhenDrawing(time_left, draw_messages) ==
  draw_messages /\ Expired(time_left)
Erases(time_left, draw_messages) == Expired(time_left)

\* Lines 121-138: one pass of the loop, or its end.
DrawIterate ==
  /\ pc["draw"] = "loop"
  /\ IF drawing.it > Len(s_messages)
     THEN /\ Goto("draw", "unlock")
          /\ UNCHANGED <<s_messages, drawing>>
     ELSE LET msg == s_messages[drawing.it]
              time_left == TimeLeft(msg, drawing.now)
              erased == Erases(time_left, drawing.draw_messages)
              shown == [index |-> Len(drawing.rendered), text |-> msg.text,
                        color |-> msg.color, time_left |-> time_left,
                        alpha |-> Alpha(time_left)]
          IN  /\ s_messages' =
                   IF erased
                   THEN SubSeq(s_messages, 1, drawing.it - 1)
                        \o SubSeq(s_messages, drawing.it + 1, Len(s_messages))
                   ELSE s_messages
              /\ drawing' =
                   [drawing EXCEPT
                      !.it = IF erased THEN @ ELSE @ + 1,
                      !.visited = Append(@, msg),
                      !.rendered = IF ~erased /\ drawing.draw_messages
                                   THEN Append(@, shown) ELSE @]
              /\ UNCHANGED pc
  /\ UNCHANGED <<nextText, queueGhosts, mutex, adding, calls>>

\* Line 139.
DrawRelease == Release("draw")

vars == <<queueVars, controlVars, threadVars>>

Init ==
  /\ QueueInit /\ ControlsInit({45}, {LastFrame}, {FALSE}) /\ ThreadsInit

\* The message queue and its callers.
Next ==
  \/ \E type \in MessageType, ms \in Durations, rgba \in Colors :
       AddTypedMessage(type, ms, rgba)
         /\ UNCHANGED <<controlVars, threadVars>>
  \/ \E ms \in Durations, rgba \in Colors :
       AddMessage(ms, rgba) /\ UNCHANGED <<controlVars, threadVars>>
  \/ \E draw_messages \in BOOLEAN :
       DrawMessagesRead(draw_messages)
         /\ UNCHANGED <<controlVars, threadVars>>
  \/ DrawMessages /\ UNCHANGED <<controlVars, threadVars>>
  \/ ClearMessages /\ UNCHANGED <<controlVars, threadVars>>
  \/ \E delta \in Deltas : Tick(delta) /\ UNCHANGED <<controlVars, threadVars>>

Spec == Init /\ [][Next]_vars

\* A frame with the pointer at one of the positions P.
Frames(P) ==
  \E pos \in P, down \in BOOLEAN :
    Frame(pos, down) /\ UNCHANGED <<queueVars, threadVars>>

\* The control bar's first frame finds the volume the configuration holds.
ControlsStart ==
  /\ QueueInit /\ ControlsInit(InitVolumes, {LastFrame}, BOOLEAN) /\ ThreadsInit

\* A session at the seek bar and a jump button, the playback thread
\* completing the seeks.
SeekStart ==
  /\ QueueInit /\ ControlsInit({45}, SeekLastFrames, BOOLEAN) /\ ThreadsInit

SeekNext ==
  \/ Frames(SeekPointers)
  \/ SeekCompleted /\ UNCHANGED <<queueVars, threadVars>>

SpecSeek == SeekStart /\ [][SeekNext]_vars

\* A drag of the seek bar that leaves the hover region and the bar, in both
\* builds, and the sliders' mapping on its own.
DragPointers == { OnSeekLeft, OnJumpBack, OutLeft, OutRight }
DragStart ==
  /\ QueueInit /\ ControlsInit({45}, { LastFrame, FmaLastFrame }, BOOLEAN)
  /\ ThreadsInit
DragNext ==
  \/ Frames(DragPointers)
  \/ \E slider_sz \in SliderSizes, range \in SliderRanges,
         mouse_x \in SliderMouse :
       SliderValueCall(slider_sz, range[1], range[2], mouse_x)
         /\ UNCHANGED <<queueVars, threadVars>>

SpecDrag == DragStart /\ [][DragNext]_vars

\* A session at the seek bar of a replay of two hours.
OverrunPointers == { OnSeekRight, OffWidgets }
OverrunStart ==
  /\ QueueInit /\ ControlsInit({45}, { OverrunLastFrame }, {FALSE})
  /\ ThreadsInit
OverrunNext == Frames(OverrunPointers)

SpecOverrun == OverrunStart /\ [][OverrunNext]_vars

\* A session at the volume bar and the mute button.
VolumeNext == Frames(VolumePointers)

SpecVolume == ControlsStart /\ [][VolumeNext]_vars

\* A session at the four jump buttons, the playback thread completing the
\* seeks.
JumpNext ==
  \/ Frames(JumpPointers)
  \/ SeekCompleted /\ UNCHANGED <<queueVars, threadVars>>

SpecJump == ControlsStart /\ [][JumpNext]_vars

\* A session that goes between the seek bar and the volume bar.
BothBarsNext ==
  \/ Frames(BothBarsPointers)
  \/ SeekCompleted /\ UNCHANGED <<queueVars, threadVars>>

SpecBothBars == ControlsStart /\ [][BothBarsNext]_vars

\* A session in which the control bar is at times not drawn.
RerenderNext ==
  \/ Frames(RerenderPointers)
  \/ \E pos \in RerenderPointers, down \in BOOLEAN :
        HiddenFrame(pos, down) /\ UNCHANGED <<queueVars, threadVars>>
  \/ SeekCompleted /\ UNCHANGED <<queueVars, threadVars>>

SpecRerender == ControlsStart /\ [][RerenderNext]_vars

\* A session in which time passes between the frames.
IdleNext ==
  \/ Frames(IdlePointers)
  \/ \E delta \in IdleDeltas : IdleTick(delta) /\ UNCHANGED <<threadVars>>

SpecIdle == ControlsStart /\ [][IdleNext]_vars

\* The queue's callers as concurrent threads.
ThreadsNext ==
  \/ \E p \in Producers, type \in ThreadTypes, ms \in ThreadDurations,
         rgba \in Colors :
       AddTypedBegin(p, type, ms, rgba) /\ UNCHANGED <<controlVars>>
  \/ \E p \in Producers : AddTypedAcquire(p) /\ UNCHANGED <<controlVars>>
  \/ \E p \in Producers : AddTypedErase(p) /\ UNCHANGED <<controlVars>>
  \/ \E p \in Producers : AddTypedEmplace(p) /\ UNCHANGED <<controlVars>>
  \/ \E p \in Producers : AddTypedRelease(p) /\ UNCHANGED <<controlVars>>
  \/ ClearBegin /\ UNCHANGED <<controlVars>>
  \/ ClearAcquire /\ UNCHANGED <<controlVars>>
  \/ ClearClear /\ UNCHANGED <<controlVars>>
  \/ ClearRelease /\ UNCHANGED <<controlVars>>
  \/ \E draw_messages \in BOOLEAN :
       DrawBegin(draw_messages) /\ UNCHANGED <<controlVars>>
  \/ DrawAcquire /\ UNCHANGED <<controlVars>>
  \/ DrawIterate /\ UNCHANGED <<controlVars>>
  \/ DrawRelease /\ UNCHANGED <<controlVars>>

SpecThreads == Init /\ [][ThreadsNext]_vars

\* A queue three earlier calls have filled at clock reading t: AddMessage,
\* AddTypedMessage(NetPlayPing) and AddMessage, texts -2, -1 and 0.
StockedQueue(t) ==
  LET m(type, text) ==
        Message(type, text, U32Add(t, U32(0, 1024)), U32(65535, 65280),
                t, U32(0, 1024))
  IN  Emplace(Emplace(Emplace(<< >>, m("Typeless", -2)),
                      m("NetPlayPing", -1)),
              m("Typeless", 0))

\* Calls that add to a queue which holds notifications of two keys.
ReplaceStart ==
  /\ clock \in InitClocks
  /\ s_messages = StockedQueue(clock)
  /\ nextText = 1
  /\ ticks = 0
  /\ lastTyped = [type \in MessageType |-> 0]
  /\ call = NoCall
  /\ untypedRun = [n |-> 0, size |-> Len(s_messages)]
  /\ drawRead = NoRead
  /\ ControlsInit({45}, {LastFrame}, {FALSE}) /\ ThreadsInit

ReplaceNext ==
  \/ \E type \in MessageType, ms \in Durations, rgba \in Colors :
       AddTypedMessage(type, ms, rgba)
         /\ UNCHANGED <<controlVars, threadVars>>
  \/ \E ms \in Durations, rgba \in Colors :
       AddMessage(ms, rgba) /\ UNCHANGED <<controlVars, threadVars>>

SpecReplace == ReplaceStart /\ [][ReplaceNext]_vars

\* Calls around the wrap of the clock: the clock starts 512 ms before 2^32,
\* both durations carry an expiry past 2^32, and the clock steps by 704 ms
\* or by 2^31 + 1024 ms.
WrapDurations == { U32(0, 640), U32(0, 768) }
WrapDeltas == { U32(0, 704), U32(Half \div 2, 1024) }

WrapNext ==
  \/ \E type \in MessageType, ms \in WrapDurations, rgba \in Colors :
       AddTypedMessage(type, ms, rgba)
         /\ UNCHANGED <<controlVars, threadVars>>
  \/ \E ms \in WrapDurations, rgba \in Colors :
       AddMessage(ms, rgba) /\ UNCHANGED <<controlVars, threadVars>>
  \/ \E draw_messages \in BOOLEAN :
       DrawMessagesRead(draw_messages)
         /\ UNCHANGED <<controlVars, threadVars>>
  \/ DrawMessages /\ UNCHANGED <<controlVars, threadVars>>
  \/ \E delta \in WrapDeltas :
       Tick(delta) /\ UNCHANGED <<controlVars, threadVars>>

SpecWrap == Init /\ [][WrapNext]_vars

\* The label of each of the frames.
LabelPointers == { OnSeekA, OffWidgets }

LabelStart ==
  /\ QueueInit /\ ControlsInit({45}, LabelFrames, {FALSE}) /\ ThreadsInit

LabelNext ==
  \/ Frames(LabelPointers)
  \/ SeekCompleted /\ UNCHANGED <<queueVars, threadVars>>

SpecLabel == LabelStart /\ [][LabelNext]_vars

(***************************************************************************)
(* Properties of the message queue.                                        *)
(***************************************************************************)
\* The entries of q stored under the key.
Keyed(q, type) == SelectSeq(q, LAMBDA m : m.type = type)

\* q without its i-th entry.
Without(q, i) == SubSeq(q, 1, i - 1) \o SubSeq(q, i + 1, Len(q))

\* Clock time since the call that queued m, as the u32 clock shows it.
Elapsed(m, now) == U32Sub(now, m.t)

TwoTo31 == U32(Half \div 2, 0)

InQueue(q, m) == \E i \in 1 .. Len(q) : q[i] = m

\* C1 as stated: for every message type T, once AddTypedMessage(T, ...) has
\* been called, the queue holds at most one notification keyed T, and it is
\* the one the most recent AddTypedMessage(T, ...) inserted.
C1_OnePerTypeEveryType ==
  \A type \in MessageType :
    lastTyped[type] # 0 =>
      /\ Len(Keyed(s_messages, type)) <= 1
      /\ \A i \in 1 .. Len(s_messages) :
           s_messages[i].type = type => s_messages[i].text = lastTyped[type]

\* C1 amended: for every message type T other than Typeless the queue holds
\* at most one notification keyed T, the one the most recent
\* AddTypedMessage(T, ...) inserted; for every T, Typeless included, no
\* notification keyed T is older than the most recent AddTypedMessage(T, ...).
C1_OnePerTypedKey ==
  \A type \in MessageType :
    lastTyped[type] # 0 =>
      /\ type # "Typeless" => Len(Keyed(s_messages, type)) <= 1
      /\ \A i \in 1 .. Len(s_messages) :
           s_messages[i].type = type =>
             /\ s_messages[i].text >= lastTyped[type]
             /\ type # "Typeless" => s_messages[i].text = lastTyped[type]

\* An AddTypedMessage(T) has just replaced an earlier notification keyed T.
C1_Witness ==
  /\ call.op = "AddTypedMessage"
  /\ call.type # "Typeless"
  /\ Len(Keyed(call.before, call.type)) = 1
  /\ Len(Keyed(s_messages, call.type)) = 1
  /\ Keyed(s_messages, call.type)[1].text = lastTyped[call.type]
  /\ Keyed(call.before, call.type)[1].text < lastTyped[call.type]

\* C2: AddMessage never evicts.  The queue after an AddMessage is the queue
\* before it with one Typeless notification more, and after N AddMessage
\* calls in a row the queue is N longer than it was.
C2_AddMessageNeverEvicts ==
  /\ call.op = "AddMessage" =>
       \E i \in 1 .. Len(s_messages) :
         /\ Without(s_messages, i) = call.before
         /\ s_messages[i].type = "Typeless"
         /\ s_messages[i].text = nextText - 1
  /\ Len(s_messages) = untypedRun.size + untypedRun.n

\* Two AddMessage calls in a row: both notifications are queued.
C2_Witness ==
  /\ untypedRun.n = 2
  /\ Len(Keyed(s_messages, "Typeless")) >= 2

\* C3 as stated: for every duration d, a notification queued at clock reading
\* t is kept by every DrawMessages with t <= now < t + d and removed by any
\* DrawMessages with now >= t + d.
C3_LifetimeEveryDuration ==
  call.op = "DrawMessages" =>
    \A i \in 1 .. Len(call.before) :
      LET m == call.before[i]
      IN  ~U32Less(call.now, m.t) =>
            IF U32Less(Elapsed(m, call.now), m.ms)
            THEN InQueue(s_messages, m)
            ELSE ~InQueue(s_messages, m)

\* C3 amended: for every duration d < 2^31, with e = (now - t) mod 2^32 the
\* clock time since the notification was queued, every DrawMessages with
\* e < d keeps it and every DrawMessages with d <= e <= d + 2^31 removes it.
C3_LifetimeBelowTwoTo31 ==
  call.op = "DrawMessages" =>
    \A i \in 1 .. Len(call.before) :
      LET m == call.before[i]
          e == Elapsed(m, call.now)
      IN  U32Less(m.ms, TwoTo31) =>
            /\ U32Less(e, m.ms) => InQueue(s_messages, m)
            /\ (~U32Less(e, m.ms) /\ ~U32Less(U32Add(m.ms, TwoTo31), e))
                 => ~InQueue(s_messages, m)

\* One DrawMessages keeps a notification part of whose duration has passed
\* and removes another whose duration has passed in full.
C3_Witness ==
  /\ call.op = "DrawMessages"
  /\ \E i, j \in 1 .. Len(call.before) :
       LET m == call.before[i]
           x == call.before[j]
       IN  /\ U32Less(m.ms, TwoTo31) /\ U32Less(x.ms, TwoTo31)
           /\ U32Less(U32(0, 0), Elapsed(m, call.now))
           /\ U32Less(Elapsed(m, call.now), m.ms)
           /\ InQueue(s_messages, m)
           /\ U32Less(U32(0, 0), x.ms)
           /\ ~U32Less(Elapsed(x, call.now), x.ms)
           /\ ~InQueue(s_messages, x)

\* The message of call.before a DrawMessage call was made for.
MessageOf(r) == CHOOSE m \in { call.before[i] : i \in 1 .. Len(call.before) } :
                  m.text = r.text

\* C4: every notification DrawMessages renders has time left > 0 (the signed
\* 32-bit expiry - now) and is drawn at opacity clamp(time left / 1024, 0, 1):
\* 1 from 1024 ms on, 1/2 at 512 ms; while less than its duration d < 2^31
\* has passed, the time left is d minus the time passed.  With drawing on,
\* every notification DrawMessages keeps is rendered.
C4_Opacity ==
  /\ \A k \in 1 .. Len(Drawn) :
       LET r  == Drawn[k]
           m  == MessageOf(r)
           tl == ToS32(U32Sub(m.timestamp, call.now))
           e  == Elapsed(m, call.now)
       IN  /\ r.time_left = tl
           /\ tl > 0
           /\ r.alpha[1] > 0
           /\ tl >= 1024 => r.alpha[1] = r.alpha[2]
           /\ tl = 512 => 2 * r.alpha[1] = r.alpha[2]
           /\ tl < 1024 => r.alpha[1] * 1024 = tl * r.alpha[2]
           /\ (U32Less(m.ms, TwoTo31) /\ U32Less(e, m.ms))
                => tl = ToS32(U32Sub(m.ms, e))
           /\ r.index = k - 1
           /\ InQueue(s_messages, m)
  /\ (call.op = "DrawMessages" /\ call.draw_messages)
       => Len(Drawn) = Len(s_messages)

\* One DrawMessages renders a notification with 512 ms left at opacity 1/2
\* and another with 1024 ms left at opacity 1.
C4_Witness ==
  \E j, k \in 1 .. Len(Drawn) :
    /\ Drawn[j].time_left = 512 /\ 2 * Drawn[j].alpha[1] = Drawn[j].alpha[2]
    /\ Drawn[k].time_left >= 1024 /\ Drawn[k].alpha[1] = Drawn[k].alpha[2]


(***************************************************************************)
(* Properties of the control bar.  They compare the state before a frame   *)
(* (unprimed) with the state it leaves (primed).                           *)
(***************************************************************************)
\* A step that is a frame of the control bar; g' holds its mouse input.
IsFrame == ui'.op = "frame" /\ ticks' = ticks

\* The seek bar's value for a pointer position.
SeekValueAt(p) ==
  SliderValue(SeekFrameBB, PLAYBACK_FIRST_SAVE, playback.lastFrame, p.x,
              fp_contract)

\* The volume bar's value for a pointer position.
VolumeValueAt(p) == SliderValue(VolumeBB, 0, 100, p.x, fp_contract)

\* The volume-apply calls the volume bar made in a frame.
BarCalls(h) == SelectSeq(h.volumes, LAMBDA r : r.by = "bar")

\* No seek request and no write of targetFrameNum in a frame with the
\* button down.
NoSeekWhileDown ==
  g'.MouseDown =>
    host'.seeks = <<>> /\ playback'.targetFrameNum = playback.targetFrameNum

\* C5 as claimed: the frame that releases a seek-bar drag publishes exactly
\* one seek request, carrying the value of the pointer position at the
\* release; frames with the button down publish none and leave
\* targetFrameNum alone.
C5_ReleaseCarriesReleaseValue ==
  [][IsFrame =>
       /\ seek_isHeld /\ ~g'.MouseDown =>
            /\ host'.seeks = << SeekValueAt(g'.MousePos) >>
            /\ playback'.targetFrameNum = SeekValueAt(g'.MousePos)
       /\ NoSeekWhileDown]_vars

\* What the release does where no tooltip label overruns its buffer: it
\* publishes exactly one seek request, carrying the value previewed in the
\* last frame with the button down, which is the value of the pointer
\* position of that frame; the drag is over after it; frames with the
\* button down publish none and leave targetFrameNum alone.
ReleaseCarriesLastPreview ==
  [][IsFrame =>
       /\ seek_isHeld /\ ~g'.MouseDown =>
            /\ frame = SeekValueAt(g.MousePos)
            /\ host'.seeks = << frame >>
            /\ playback'.targetFrameNum = frame
            /\ ~seek_isHeld'
       /\ NoSeekWhileDown]_vars

\* A drag pressed and previewed at OnSeekA is released with the pointer at
\* OnSeekB: the one seek request carries the value of OnSeekA.
ReleasedAwayFromPreview ==
  /\ ui.op = "frame" /\ ui.seek_changed
  /\ g.MousePos = OnSeekB /\ ~g.MouseDown
  /\ host.seeks = << SeekValueAt(OnSeekA) >>
  /\ SeekValueAt(OnSeekA) # SeekValueAt(OnSeekB)

\* C6: in a frame with the button down, the volume bar hovered or held and
\* the pointer's value different from the stored volume, the volume becomes
\* the pointer's value and the bar makes exactly one volume-apply call; in
\* a frame where the two are equal, or the button is up, it makes none.
C6_VolumeBarPublishesPerChange ==
  [][IsFrame =>
       LET mapped == VolumeValueAt(g'.MousePos)
           stored == ui'.volume_at_bar
       IN  /\ ( /\ g'.MouseDown
                /\ ui'.volume_hovered \/ volume_isHeld
                /\ mapped # stored ) =>
                  /\ m_Volume' = mapped
                  /\ BarCalls(host') = << [by |-> "bar", volume |-> mapped] >>
           /\ (mapped = stored \/ ~g'.MouseDown) =>
                  BarCalls(host') = << >>]_vars

\* A held drag moves from volume 50 to volume 80: one call, with 80.
C6_Witness ==
  /\ ui.op = "frame" /\ volume_isHeld /\ ~g.MouseClicked
  /\ g.MousePos = OnVolume80
  /\ ui.volume_at_bar = 50 /\ m_Volume = 80
  /\ host.volumes = << [by |-> "bar", volume |-> 80] >>

\* C7 as claimed: a click on the mute button at volume 0 restores the last
\* nonzero volume the control had, and 30 only if it never had one.
C7_MuteRestoresLastNonzero ==
  [][(IsFrame /\ ui'.mute_pressed /\ m_Volume = 0) =>
       m_Volume' = IF ui.lastNonzero = 0 THEN 30 ELSE ui.lastNonzero]_vars

\* C7 amended: a click on the mute button at volume 0 restores the volume
\* that the latest click on it at a nonzero volume found, and 30 if there
\* was no such click; a click at a nonzero volume sets the volume to 0.
\* Either click applies the volume once.
C7_MuteRestoresLastMuted ==
  [][(IsFrame /\ ui'.mute_pressed) =>
       /\ m_Volume' = IF m_Volume # 0 THEN 0
                      ELSE IF ui.lastMuted = 0 THEN 30 ELSE ui.lastMuted
       /\ host'.volumes = << [by |-> "mute", volume |-> m_Volume'] >>]_vars

\* A click on the mute button restores 45, the volume an earlier click on
\* it had muted.
C7_Witness ==
  /\ ui.op = "frame" /\ ui.mute_pressed
  /\ ui.lastMuted = 45 /\ m_Volume = 45
  /\ host.volumes = << [by |-> "mute", volume |-> 45] >>

\* The time since the pointer position last changed, as a frame finds it:
\* the 32-bit clock's distance from the latest frame that saw it change.
IdleMillis ==
  IF g'.MousePos # g.MousePos THEN U32(0, 0) ELSE U32Sub(clock, ui.moved_at)

\* max(0.0001, 1 - max(0, idle - 1000) / 1000), in ten-thousandths.
ClaimedOpacity(idle) ==
  IF idle[1] = 0 /\ idle[2] <= 1000 THEN <<10000, 10000>>
  ELSE IF idle[1] = 0 /\ idle[2] < 2000
       THEN <<10000 - 10 * (idle[2] - 1000), 10000>>
       ELSE <<1, 10000>>

\* The opacity a frame is claimed to set: 1 with the help panel open or a
\* widget hovered, else the fade.
ClaimedAlpha ==
  IF showHelp \/ ui'.hovered_id # NoId THEN <<10000, 10000>>
  ELSE ClaimedOpacity(IdleMillis)

\* C8 as claimed: every frame sets the opacity to 1 if the help panel is
\* open or a widget is hovered, else to the fade of the idle time, whatever
\* the idle time; a frame whose pointer position changed restarts the idle
\* time.
C8_IdleFade ==
  [][IsFrame =>
       /\ style_Alpha' = ClaimedAlpha
       /\ g'.MousePos # g.MousePos => idle_tick' = clock]_vars

\* C8 amended: the same for an idle time below 2^31 ms.
C8_IdleFadeBelowTwoTo31 ==
  [][IsFrame =>
       /\ IdleMillis[1] < Half \div 2 => style_Alpha' = ClaimedAlpha
       /\ style_Alpha'[1] >= 1 /\ style_Alpha'[1] <= style_Alpha'[2]
       /\ g'.MousePos # g.MousePos => idle_tick' = clock]_vars

\* A frame 2500 ms after the pointer last moved, nothing hovered and the
\* help panel closed: the opacity is 0.0001.
C8_Witness ==
  /\ ui.op = "frame" /\ ~showHelp /\ ui.hovered_id = NoId
  /\ U32Sub(ui.now, ui.moved_at) = U32(0, 2500)
  /\ style_Alpha = <<1, 10000>>


(***************************************************************************)
(* Properties of the queue under concurrent callers.                       *)
(***************************************************************************)
\* A thread between taking the mutex and releasing it.
InCritical(t) == pc[t] \in { "erase", "emplace", "clear", "loop", "unlock" }

\* C9: ClearMessages never runs inside the loop of DrawMessages.  While the
\* loop runs the queue is what the call found when it took the lock, less
\* the expired ones among the entries visited so far; when the loop ends it
\* has visited every entry the call found, rendered those that are kept (if
\* drawing is enabled) and the queue holds those.
C9_DrawSeesWholeQueue ==
  /\ pc["draw"] = "loop" =>
       LET n == Len(drawing.visited)
       IN  /\ n <= Len(drawing.snapshot)
           /\ drawing.visited = SubSeq(drawing.snapshot, 1, n)
           /\ s_messages =
                Kept(drawing.visited, drawing.now)
                \o SubSeq(drawing.snapshot, n + 1, Len(drawing.snapshot))
  /\ pc["draw"] = "unlock" =>
       /\ drawing.visited = drawing.snapshot
       /\ s_messages = Kept(drawing.snapshot, drawing.now)
       /\ drawing.rendered =
            Rendered(drawing.snapshot, drawing.now, drawing.draw_messages)
  /\ pc["clear"] \in { "clear", "unlock" } =>
       pc["draw"] \notin { "loop", "unlock" }

\* DrawMessages has visited one of two entries while ClearMessages, called
\* from the clearing thread, waits for the mutex.
C9_Witness ==
  /\ pc["draw"] = "loop"
  /\ Len(drawing.snapshot) = 2 /\ Len(drawing.visited) = 1
  /\ pc["clear"] = "lock"

\* C10: while a producer is between the erase and the insert of
\* AddTypedMessage it holds the mutex and no other thread is inside a queue
\* operation; and no state holds two entries under one key.
C10_EraseInsertAtomic ==
  /\ \A p \in Producers :
       pc[p] \in { "erase", "emplace" } =>
         /\ mutex = p
         /\ \A q \in Threads \ {p} : ~InCritical(q)
  /\ \A type \in MessageType : Len(Keyed(s_messages, type)) <= 1

\* A producer has erased the entry it replaces and not yet inserted; the
\* other producer, adding under the same key, and DrawMessages wait for the
\* mutex.
C10_Witness ==
  /\ pc["p1"] = "emplace" /\ adding["p1"].erased = 1
  /\ Keyed(s_messages, adding["p1"].type) = <<>>
  /\ pc["p2"] = "lock" /\ adding["p2"].type = adding["p1"].type
  /\ pc["draw"] = "lock"

\* ---- Seek targets ----

\* C11: every seek request a frame publishes carries a target inside
\* [firstFrame, lastFrame], the requests of the jump buttons included.
C11_SeekTargetsInRange ==
  \A i \in 1 .. Len(host.seeks) :
     /\ host.seeks[i] >= PLAYBACK_FIRST_SAVE
     /\ host.seeks[i] <= playback.lastFrame

\* ---- Volume range ----

\* C12: the volume is always within [0, 100], whatever the pointer does:
\* both the stored volume and every volume a frame publishes.
C12_VolumeInRange ==
  /\ m_Volume >= 0 /\ m_Volume <= 100
  /\ \A i \in 1 .. Len(host.volumes) :
        host.volumes[i].volume >= 0 /\ host.volumes[i].volume <= 100

\* A held drag has left the bar past its right end and the frame published
\* the volume of the end of the bar.
C12_Witness ==
  /\ ui.op = "frame"
  /\ volume_isHeld
  /\ g.MousePos = OffWidgets
  /\ OffWidgets.x > VolumeBB.Max.x
  /\ m_Volume = 100
  /\ BarCalls(host) = << [by |-> "bar", volume |-> 100] >>

\* ---- Entering Held ----

\* C13: the seek bar enters Held only in a frame in which the button is
\* pressed while the bar is hovered; in a frame that finds the button
\* already down and the bar not held, the bar stays not held and the value
\* it shows is the progress value, the pointer's position left aside.
C13_HeldOnlyByPressWhileHovered ==
  [][IsFrame =>
       /\ (~seek_isHeld /\ seek_isHeld') =>
             (g'.MouseClicked /\ ui'.seek_hovered)
       /\ (~seek_isHeld /\ g'.MouseDown /\ ~g'.MouseClicked) =>
             /\ ~seek_isHeld'
             /\ frame' = Progress(playback.targetFrameNum,
                                  playback.currentPlaybackFrame)]_vars

\* ---- The previewed value of a drag ----

\* q is n / d (d > 0) with the fraction dropped, towards zero.
IsTruncationOf(q, n, d) ==
  IF n >= 0 THEN q * d <= n /\ n < (q + 1) * d
            ELSE (q - 1) * d < n /\ n <= q * d

\* v is what is left of some y when its fraction is dropped towards zero,
\* for a y no further than 1/8 from n / d.
IsTruncationNear(v, n, d) ==
  LET D == n - v * d
  IN  /\ v >= 0 => 8 * D - d < 8 * d
      /\ v > 0 => 8 * D + d >= 0
      /\ v <= 0 => 8 * D + d > -8 * d
      /\ v < 0 => 8 * D - d <= 0

\* clicked_t as a fraction num / den: the position mouse_x along a slider of
\* width slider_sz clamped to [0, 1], 0 for a slider without width.
ClampedT(slider_sz, mouse_x) ==
  IF slider_sz > 0
  THEN [num |-> Max(0, Min(slider_sz, mouse_x)), den |-> slider_sz]
  ELSE [num |-> 0, den |-> 1]

\* The pointer's position along the seek bar.
BarWidth == SeekFrameBB.Max.x - SeekFrameBB.Min.x
BarT(p) == ClampedT(BarWidth, p.x - SeekFrameBB.Min.x)

\* v_min + (v_max - v_min) * t without rounding, as the numerator over
\* t.den.
ExactSum(v_min, v_max, t) == v_min * t.den + (v_max - v_min) * t.num

\* C14 as stated: in every frame that leaves the seek bar held, the value
\* is firstFrame + trunc((lastFrame - firstFrame) * t), and lies in
\* [firstFrame, lastFrame].
C14_PreviewFirstPlusTruncatedOffset ==
  [][(IsFrame /\ seek_isHeld') =>
       LET t == BarT(g'.MousePos)
           offset == (playback.lastFrame - PLAYBACK_FIRST_SAVE) * t.num
       IN  /\ IsTruncationOf(frame' - PLAYBACK_FIRST_SAVE, offset, t.den)
           /\ frame' >= PLAYBACK_FIRST_SAVE
           /\ frame' <= playback.lastFrame]_vars

\* C14, amended: in every frame that leaves the seek bar held, the value is
\* the sum firstFrame + (lastFrame - firstFrame) * t as single-precision
\* arithmetic gives it, product and sum rounded one after the other or in
\* one fused step, which is within 1/8 of the exact sum, with its fraction
\* dropped towards zero; t is the pointer's position along the bar clamped
\* to [0, 1], and 0 for a bar without width; the value lies in
\* [firstFrame, lastFrame].  The same holds of every call of the sliders'
\* mapping, whatever its width and range.
C14_PreviewTruncatedFloatSum ==
  [][/\ (IsFrame /\ seek_isHeld') =>
          /\ IsTruncationNear(frame',
                              ExactSum(PLAYBACK_FIRST_SAVE, playback.lastFrame,
                                       BarT(g'.MousePos)),
                              BarT(g'.MousePos).den)
          /\ frame' >= PLAYBACK_FIRST_SAVE
          /\ frame' <= playback.lastFrame
     /\ slider'.called =>
          LET t == ClampedT(slider'.slider_sz, slider'.mouse_x)
          IN  /\ IsTruncationNear(slider'.new_value,
                                  ExactSum(slider'.v_min, slider'.v_max, t),
                                  t.den)
              /\ slider'.new_value >= slider'.v_min
              /\ slider'.new_value <= slider'.v_max
              /\ slider'.slider_sz = 0 => slider'.new_value = slider'.v_min]_vars

\* A held drag is at a position whose exact sum is just below a whole
\* frame: the build that rounds product and sum one after the other rounds
\* the sum up to that frame, one more than the exact sum without its
\* fraction.
C14_Witness ==
  /\ ui.op = "frame"
  /\ seek_isHeld
  /\ ~fp_contract
  /\ g.MousePos = OnSeekLeft
  /\ playback.lastFrame = FmaLastFrame
  /\ frame > 0
  /\ frame * BarWidth
       > ExactSum(PLAYBACK_FIRST_SAVE, playback.lastFrame, BarT(g.MousePos))

\* The same drag in the build that fuses product and sum: the one rounding
\* leaves the sum below the whole frame.
DragFusedBelow ==
  /\ ui.op = "frame"
  /\ seek_isHeld
  /\ fp_contract
  /\ g.MousePos = OnSeekLeft
  /\ playback.lastFrame = FmaLastFrame
  /\ (frame + 1) * BarWidth
       > ExactSum(PLAYBACK_FIRST_SAVE, playback.lastFrame, BarT(g.MousePos))
  /\ frame * BarWidth
       <= ExactSum(PLAYBACK_FIRST_SAVE, playback.lastFrame, BarT(g.MousePos))

\* A held drag with the pointer beyond the right end of the bar: the clamp
\* holds t at 1 and the value at lastFrame.
DragBeyondRight ==
  /\ ui.op = "frame" /\ seek_isHeld
  /\ g.MousePos = OutRight
  /\ g.MousePos.x > SeekFrameBB.Max.x
  /\ frame = playback.lastFrame

\* A held drag with the pointer before the left end of the bar: the clamp
\* holds t at 0 and the value at firstFrame.
DragBeforeLeft ==
  /\ ui.op = "frame" /\ seek_isHeld
  /\ g.MousePos = OutLeft
  /\ g.MousePos.x < SeekFrameBB.Min.x
  /\ frame = PLAYBACK_FIRST_SAVE

\* The mapping called on a slider without width, the pointer to its right.
SliderWithoutWidth ==
  /\ slider.called /\ slider.slider_sz = 0 /\ slider.mouse_x > 0
  /\ slider.new_value = slider.v_min /\ slider.v_min < slider.v_max

\* ---- Drawing the bar again ----

\* C15: when the control bar has not been drawn for a frame and is drawn
\* again with the button up, that frame publishes no seek request and
\* writes no target frame: no hold survives the frames without the bar.
C15_NoStaleHold ==
  [][(IsFrame /\ ui.op = "hidden" /\ ~g'.MouseDown) =>
       /\ host'.seeks = << >>
       /\ playback'.targetFrameNum = playback.targetFrameNum]_vars

\* ---- Pruning and the draw setting ----

\* The entry's expiry lies after now: as 32-bit values, expiry - now is a
\* positive signed number.
Outlives(m, now) ==
  LET left == U32Sub(m.timestamp, now)
  IN  left # U32(0, 0) /\ left[1] < Half \div 2

\* C16: when DrawMessages has gone through the queue, the queue holds
\* exactly the entries it found whose expiry lies after now, in their
\* order, whether drawing is enabled or not; with drawing disabled nothing
\* was rendered, with drawing enabled every entry that remains was.
C16_PruneWhateverTheDrawSetting ==
  pc["draw"] = "unlock" =>
    /\ s_messages =
         SelectSeq(drawing.snapshot, LAMBDA m : Outlives(m, drawing.now))
    /\ Len(drawing.rendered) =
         IF drawing.draw_messages THEN Len(s_messages) ELSE 0

\* DrawMessages, drawing disabled, found an expired and a live entry: it
\* rendered nothing and left the live one.
C16_Witness ==
  /\ pc["draw"] = "unlock"
  /\ ~drawing.draw_messages
  /\ Len(drawing.snapshot) = 2
  /\ \E i \in 1 .. 2 : ~Outlives(drawing.snapshot[i], drawing.now)
  /\ Len(s_messages) = 1
  /\ Outlives(s_messages[1], drawing.now)
  /\ drawing.rendered = << >>

\* ---- The value of the bar at rest ----

\* The value a drag shows for the pointer of the frame just drawn.
HeldValue == SeekValueAt(g'.MousePos)

\* C17 as stated: a frame that leaves the seek bar not held leaves its
\* value at the target if the playback status has one at the end of the
\* frame and at the current playback frame if it has none; a frame that
\* leaves the bar held leaves the value of the pointer.
C17_ValueFollowsStatusAtFrameEnd ==
  [][IsFrame =>
       IF seek_isHeld'
       THEN frame' = HeldValue
       ELSE frame' = IF playback'.targetFrameNum # INT_MAX
                     THEN playback'.targetFrameNum
                     ELSE playback'.currentPlaybackFrame]_vars

\* C17, amended: the target that counts is the one the playback status has
\* when the seek bar is evaluated: the one the frame found, or the one the
\* bar's own release wrote in this frame.  A target a jump button writes
\* later in the same frame does not show before the next frame.
C17_ValueFollowsStatusAtSeekBar ==
  [][IsFrame =>
       IF seek_isHeld'
       THEN frame' = HeldValue
       ELSE LET target == IF ui'.seek_changed THEN host'.seeks[1]
                                              ELSE playback.targetFrameNum
            IN  frame' = IF target # INT_MAX
                         THEN target
                         ELSE playback.currentPlaybackFrame]_vars

\* A click on the jump-back button has set a target in a frame whose seek
\* bar, evaluated before, still shows the current playback frame.
C17_Witness ==
  /\ ui.op = "frame"
  /\ ~seek_isHeld
  /\ ~ui.seek_changed
  /\ host.seeks = << playback.currentPlaybackFrame - 1200 >>
  /\ playback.targetFrameNum = playback.currentPlaybackFrame - 1200
  /\ frame = playback.currentPlaybackFrame

\* ---- The timestamp label ----

\* n as two decimal digits, for 0 <= n < 100.
TwoDigits(n) == << DigitChar[(n \div 10) + 1], DigitChar[(n % 10) + 1] >>

\* The labels the latest frame drew or stopped at.
DrawnLabels ==
  IF ui.op \in {"frame", "stopped"}
  THEN (IF timeText.tooltip_drawn THEN { timeText.tooltip } ELSE {})
         \cup (IF timeText.tooltip.aborted THEN {}
               ELSE { timeText.playbackTime })
         \cup (IF timeText.tooltip.aborted \/ timeText.playbackTime.aborted
               THEN {} ELSE { timeText.endTime })
  ELSE {}

\* The label is MM:SS of its frame.
IsMMSS(label) ==
  LET total == (label.of - GAME_FIRST_FRAME) \div 60
      MM == total \div 60
      SS == total % 60
  IN  /\ ~label.aborted
      /\ ~label.stray
      /\ ~label.other
      /\ Len(label.text) = 5
      /\ MM < 100
      /\ label.text = TwoDigits(MM) \o << ":" >> \o TwoDigits(SS)

\* C18: for every frame of the seek range the label is exactly the five
\* characters MM:SS, with total seconds = floor((f - streamFirstFrame) / 60),
\* MM = floor(total seconds / 60) and SS = total seconds mod 60, both in
\* two digits.
C18_LabelIsMMSS ==
  \A label \in DrawnLabels :
    (PLAYBACK_FIRST_SAVE <= label.of /\ label.of <= playback.lastFrame)
      => IsMMSS(label)

\* In a replay of less than a hundred minutes the label is as C18 says.
LabelIsMMSSBelowHundredMinutes ==
  playback.lastFrame - GAME_FIRST_FRAME < 100 * 60 * 60 =>
    \A label \in DrawnLabels :
      (PLAYBACK_FIRST_SAVE <= label.of /\ label.of <= playback.lastFrame)
        => IsMMSS(label)

\* In a replay of a hundred minutes or more a frame draws a time text whose
\* start is not the playback time's label, which by itself fits currTime.
PlaybackTimeOverwritten ==
  /\ ui.op = "frame"
  /\ timeText.playbackTime.other
  /\ timeText.playbackTime.text = WindowName
  /\ Len(Written(timeText.playbackTime.of)) + 1 <= CurrTimeSize

\* A frame drew the time text of a replay of half a minute.
TimeTextOfHalfAMinute ==
  (ui.op = "frame" /\ playback.lastFrame = LastFrame
     /\ playback.currentPlaybackFrame = 0)
    => TimeString(timeText)
         = << "0", "0", ":", "0", "2", " ", "/", " ", "0", "0", ":", "3", "3" >>

\* ---- What AddTypedMessage removes ----

\* The entries of q under a key other than type, in their order.
OtherKeys(q, type) == SelectSeq(q, LAMBDA m : m.type # type)

\* C19: AddTypedMessage(T, ...) removes all and only the entries keyed T.
\* After the call no entry that was queued under T before it is left, T has
\* the new entry and no other, and the entries under every other key are
\* what they were, in the same order; so a call with another T removes no
\* untyped entry and a call with T = Typeless removes every one of them.
C19_RemovesAllAndOnlyItsKey ==
  call.op = "AddTypedMessage" =>
    /\ OtherKeys(s_messages, call.type) = OtherKeys(call.before, call.type)
    /\ \A i \in 1 .. Len(s_messages) :
         s_messages[i].type = call.type =>
           /\ ~InQueue(call.before, s_messages[i])
           /\ s_messages[i].text = nextText - 1
    /\ Len(Keyed(s_messages, call.type)) = 1
    /\ Len(s_messages) = Len(OtherKeys(call.before, call.type)) + 1

\* AddTypedMessage(Typeless) found two untyped notifications and a typed
\* one: both untyped ones are gone and the typed one is still queued.
C19_Witness ==
  /\ call.op = "AddTypedMessage"
  /\ call.type = "Typeless"
  /\ Len(Keyed(call.before, "Typeless")) = 2
  /\ Len(OtherKeys(call.before, "Typeless")) = 1
  /\ \A i \in 1 .. Len(call.before) :
       call.before[i].type = "Typeless" => ~InQueue(s_messages, call.before[i])
  /\ OtherKeys(s_messages, "Typeless") = OtherKeys(call.before, "Typeless")
  /\ Len(s_messages) = 2

\* ---- Expiry across the wrap of the clock ----

\* The expiry t + d of the notification went past 2^32.
ExpiryWrapped(m) == U32Less(m.timestamp, m.t)

\* C20 as stated: for every duration d < 2^31, a notification whose expiry
\* wrapped is kept by every DrawMessages before the wrapped expiry (less
\* than d of clock time after it was queued) and removed by every
\* DrawMessages at or after it.
C20_WrappedExpiryExact ==
  call.op = "DrawMessages" =>
    \A i \in 1 .. Len(call.before) :
      LET m == call.before[i]
          e == Elapsed(m, call.now)
      IN  (ExpiryWrapped(m) /\ U32Less(m.ms, TwoTo31)) =>
            IF U32Less(e, m.ms) THEN InQueue(s_messages, m)
                                ELSE ~InQueue(s_messages, m)

\* C20, amended: for every duration d < 2^31, a notification whose expiry
\* wrapped is kept by every DrawMessages before the wrapped expiry and
\* removed by every DrawMessages from the wrapped expiry up to 2^31 ms
\* after it.
C20_WrappedExpiryWithinTwoTo31 ==
  call.op = "DrawMessages" =>
    \A i \in 1 .. Len(call.before) :
      LET m == call.before[i]
          e == Elapsed(m, call.now)
      IN  (ExpiryWrapped(m) /\ U32Less(m.ms, TwoTo31)) =>
            /\ U32Less(e, m.ms) => InQueue(s_messages, m)
            /\ (~U32Less(e, m.ms) /\ ~U32Less(U32Add(m.ms, TwoTo31), e))
                 => ~InQueue(s_messages, m)

\* After the clock wrapped, one DrawMessages keeps a notification whose
\* wrapped expiry is still ahead and removes one whose wrapped expiry has
\* passed.
C20_Witness ==
  /\ call.op = "DrawMessages"
  /\ \E i, j \in 1 .. Len(call.before) :
       LET m == call.before[i]
           x == call.before[j]
       IN  /\ ExpiryWrapped(m) /\ ExpiryWrapped(x)
           /\ U32Less(call.now, m.t) /\ U32Less(call.now, x.t)
           /\ U32Less(call.now, m.timestamp)
           /\ U32Less(Elapsed(m, call.now), m.ms)
           /\ InQueue(s_messages, m)
           /\ ~U32Less(call.now, x.timestamp)
           /\ ~U32Less(Elapsed(x, call.now), x.ms)
           /\ ~InQueue(s_messages, x)

\* ---- The jump buttons ----

\* What each jump button adds to the current playback frame.
JumpOffset(id) ==
  CASE id = "FAST_BACKWARD" -> -1200
    [] id = "STEP_BACKWARD" -> -300
    [] id = "STEP_FORWARD"  -> 300
    [] id = "FAST_FORWARD"  -> 1200

\* C21: a click on one of the four jump buttons while a seek target is set
\* publishes no seek request and leaves the target as it is; with no target
\* set it sets the target to the current playback frame -1200, -300, +300
\* or +1200, by the button, and publishes exactly one seek request, for
\* that target.
C21_JumpOnlyWithoutTarget ==
  [][(IsFrame /\ ui'.jump_pressed # NoId) =>
       IF playback.targetFrameNum # INT_MAX
       THEN /\ host'.seeks = << >>
            /\ playback'.targetFrameNum = playback.targetFrameNum
       ELSE LET to == playback.currentPlaybackFrame
                        + JumpOffset(ui'.jump_pressed)
            IN  /\ host'.seeks = << to >>
                /\ playback'.targetFrameNum = to]_vars

\* A jump button is clicked while the target of an earlier click is still
\* set, after a seek to an earlier target has completed: nothing is
\* published and the target stays.
C21_Witness ==
  /\ ui.op = "frame"
  /\ ui.jump_pressed \in { "STEP_FORWARD", "FAST_FORWARD" }
  /\ host.seeks = << >>
  /\ playback.targetFrameNum # INT_MAX
  /\ playback.targetFrameNum
       # playback.currentPlaybackFrame + JumpOffset(ui.jump_pressed)
  /\ seeksDone >= 1

\* ---- Muting and unmuting ----

\* C22: two clicks on the mute button in a row, the volume bar not changing
\* the volume in between, bring a nonzero volume v back: the first click
\* sets the volume to 0 and remembers v, the second sets it to v again, and
\* each click applies the volume exactly once.
C22_MuteRoundTrip ==
  [][(IsFrame /\ ui'.mute_pressed) =>
       /\ m_Volume # 0 => (m_Volume' = 0 /\ prev' = m_Volume)
       /\ ui.mutedFrom # 0 => (m_Volume = 0 /\ m_Volume' = ui.mutedFrom)
       /\ Len(host'.volumes) = 1]_vars

\* The volume bar was dragged to 80, a click on the mute button muted it
\* and the next click has just brought 80 back.
C22_Witness ==
  /\ ui.op = "frame"
  /\ ui.mute_pressed /\ ui.round_trip
  /\ m_Volume = 80 /\ prev = 80
  /\ host.volumes = << [by |-> "mute", volume |-> 80] >>

\* ---- The two bars ----

\* C23: no frame ends with the seek bar and the volume bar both held; a
\* frame that finds the seek bar held does not let the volume bar change
\* the volume; and a frame that finds neither bar held leaves neither as
\* the active item, so that the marker of a hold is gone by the frame after
\* its release.
C23_BarsHeldOneAtATime ==
  [][IsFrame =>
       /\ ~(seek_isHeld' /\ volume_isHeld')
       /\ seek_isHeld => BarCalls(host') = << >>
       /\ (~seek_isHeld /\ ~volume_isHeld) =>
            g'.ActiveId \notin { "SlippiSeek", "SlippiVolume" }]_vars

====
